---- MODULE Spec2Model ----
(***************************************************************************)
(* Model of the job poller of the PronunAnalyzer frontend: the hooks       *)
(* useTranscription (frontend/src/hooks/useTranscription.js) and           *)
(* usePronunciationAnalysis, which share one shape.  The hook state, the   *)
(* pending setTimeout handles, the status requests in flight and the       *)
(* submit calls in flight are the state; every handler and every           *)
(* continuation after an await is one action.                              *)
(***************************************************************************)
EXTENDS Integers, FiniteSets, Sequences, TLC

\* ---------------------------------------------------------------- bounds
MaxSubmits == 2
MaxTimers == 2

\* ------------------------------------------------------- JavaScript values
NULL == "<null>"
UNDEFINED == "<undefined>"
EMPTY == ""
NoProgress == -1

Truthy(x) == x \notin {NULL, UNDEFINED, EMPTY}

JsOr(a, b) == IF Truthy(a) THEN a ELSE b

NumOr(p, d) == IF p = NoProgress \/ p = 0 THEN d ELSE p

\* --------------------------------------------------------------- constants
STATUS_KEYS == {"IDLE", "LOADING", "SUCCESS", "ERROR", "PROCESSING", "COMPLETED", "PENDING"}

STATUS_TABLE ==
    [k \in STATUS_KEYS |->
        CASE k = "IDLE" -> "idle"
          [] k = "LOADING" -> "loading"
          [] k = "SUCCESS" -> "success"
          [] k = "ERROR" -> "error"
          [] k = "PROCESSING" -> "processing"
          [] k = "COMPLETED" -> "completed"
          [] k = "PENDING" -> "pending"]

\* STATUS_TYPES.X : a key the object does not have reads as undefined
STATUS_TYPES(k) == IF k \in STATUS_KEYS THEN STATUS_TABLE[k] ELSE UNDEFINED

ERROR_KEYS == {"TRANSCRIPTION_FAILED", "UPLOAD_FAILED"}

ERROR_TABLE ==
    [k \in ERROR_KEYS |->
        IF k = "TRANSCRIPTION_FAILED"
        THEN "Transcription failed. Please try again."
        ELSE "File upload failed. Please try again."]

ERROR_MESSAGES(k) == IF k \in ERROR_KEYS THEN ERROR_TABLE[k] ELSE UNDEFINED

\* ------------------------------------------------------------- apiService
NoStatusCode == 0

\* the axios failures the server and the network can produce
ApiErrors ==
    { [code |-> "ERR_NETWORK", message |-> "Network Error",
       statusCode |-> NoStatusCode, detail |-> UNDEFINED],
      [code |-> "ERR_BAD_REQUEST", message |-> "Request failed with status code 400",
       statusCode |-> 400, detail |-> "decode failed"],
      [code |-> "ERR_BAD_RESPONSE", message |-> "Request failed with status code 500",
       statusCode |-> 500, detail |-> "decode failed"] }

IncludesTimeout(m) == m = "timeout of 60000ms exceeded"

\* handleApiCall, catch branch: the message of the returned error object
handleApiCall(e) ==
    LET errorMessage == JsOr(e.detail, e.message)
    IN  IF e.code = "ECONNABORTED" \/ IncludesTimeout(e.message)
        THEN "Request timed out. Please try again."
        ELSE IF e.statusCode = 503
        THEN "Service temporarily unavailable. Please check your connection."
        ELSE IF e.statusCode = 404
        THEN "Service not available."
        ELSE IF e.statusCode = 429
        THEN "Too many requests. Please wait a moment and try again."
        ELSE IF e.statusCode # NoStatusCode /\ e.statusCode >= 500
        THEN "Server error. Please try again later."
        ELSE errorMessage

\* message of the TypeError thrown by reading a field of a null body
NullDataTypeError == "Cannot read properties of null (reading 'status')"

\* ---------------------------------------------------------- server inputs
JobName(n) == IF n = 1 THEN "job-1" ELSE IF n = 2 THEN "job-2" ELSE "job-3"

ServerStatuses == {"queued", "processing", "completed", "failed", UNDEFINED}

ServerTranscripts == {UNDEFINED, EMPTY, "hello"}

ServerErrors == {UNDEFINED, "model crashed"}

ServerProgress == {NoProgress, 40}

\* bodies of GET /status/{job_id}: the server reports progress while the job
\* is processing, and an error field with a failed or status-less body (the
\* only bodies whose error field the hook reads)
StatusBodies ==
    { b \in [status : ServerStatuses, progress : ServerProgress,
             transcript : ServerTranscripts, error : ServerErrors] :
        /\ b.error # UNDEFINED => b.status \in {"failed", UNDEFINED}
        /\ b.progress # NoProgress => b.status = "processing" }

VARIABLES
    jobId, status, progress, transcript, isProcessing, error,
    pollingRef, timers, nextTimer,
    requests, submits, nextCall, nextJob,
    mounted, cancelled, polledSinceStart, last

hookState == <<jobId, status, progress, transcript, isProcessing, error>>

\* the variables of useTranscription
pollerVars == <<jobId, status, progress, transcript, isProcessing, error,
                pollingRef, timers, nextTimer, requests, submits, nextCall, nextJob,
                mounted, cancelled, polledSinceStart, last>>

\* the browser's media resources and the recording state of a component;
\* deniedBefore is the id the next start would get when the microphone was
\* last refused (0: never refused), so later starts have an id at least it
VARIABLES
    liveStreams, intervals, recorders, pendingMedia, nextRec,
    isRecording, recordingTime, mediaRecorderRef, timerRef, lastRec, deniedBefore,
    audioBlob, audioUrl, toast,
    recordedBlob, recError, isSupported, audioStreamRef, audioConfig

mediaVars == <<liveStreams, intervals, recorders, pendingMedia, nextRec>>

\* state that RecordingPage and useAudioRecording both keep
recorderState == <<isRecording, recordingTime, mediaRecorderRef, timerRef>>

\* state only RecordingPage keeps
pageState == <<audioBlob, audioUrl, toast>>

\* state only useAudioRecording keeps
recHookState == <<recordedBlob, recError, isSupported, audioStreamRef, audioConfig>>

recVars == <<mediaVars, recorderState, lastRec, deniedBefore, pageState, recHookState>>

\* inputs and result of one MIME negotiation
VARIABLES mimeTypes, supportedTypes, fallbackArg, negotiated

mimeVars == <<mimeTypes, supportedTypes, fallbackArg, negotiated>>

\* a blob handed to an upload path, and the file that path sends
VARIABLES blobType, blobName, upload

uploadVars == <<blobType, blobName, upload>>

\* ttsService: the _cache Map, the synthesis calls in flight, the pending
\* expiry timers, the object URLs created and not revoked, those revoked,
\* and whether the page is still loaded
VARIABLES ttsCache, ttsCalls, ttsTimers, objectUrls, revokedUrls, nextTts, pageLoaded, lastTts

ttsVars == <<ttsCache, ttsCalls, ttsTimers, objectUrls, revokedUrls, nextTts, pageLoaded, lastTts>>

\* chatbotService: currentSessionId, the sessionStorage item
\* 'chatbot_session_id', the sessionId state of the chat component, the
\* queries in flight, and the last operation with the ids before it
VARIABLES currentSessionId, storedSessionId, hookSessionId, chatMounted,
          chatQueries, nextSession, nextQuery, chatLast

chatVars == <<currentSessionId, storedSessionId, hookSessionId, chatMounted,
              chatQueries, nextSession, nextQuery, chatLast>>

\* SettingsProvider: its settings and isLoading state, whether the state
\* still is the DEFAULT_SETTINGS object, the localStorage item
\* 'app-settings', and the last operation
VARIABLES settings, settingsLoading, settingsPristine, settingsMounted,
          localSettings, settingOps, settingsLast

settingsVars == <<settings, settingsLoading, settingsPristine, settingsMounted,
                  localSettings, settingOps, settingsLast>>

\* playbacks of the recording started by useAudioRecording.playRecording
\* and not yet settled, and the outcome of the last call
VARIABLES playbacks, nextPlay, lastPlay

playVars == <<playbacks, nextPlay, lastPlay>>

\* the pronunciation section of App: the reference text, the recorded
\* blob, the flags the Analyze button reads, the active tab, the analysis
\* jobs submitted and not yet finished, and the status last shown
VARIABLES referenceText, appRecordedBlob, isAnalyzing, appIsRecording, appIsProcessing,
          activeTab, analysisJobs, nextAnalysis, pronunciationStatus, appTranscript

analyzeVars == <<referenceText, appRecordedBlob, isAnalyzing, appIsRecording,
                 appIsProcessing, activeTab, analysisJobs, nextAnalysis,
                 pronunciationStatus, appTranscript>>

\* the PronunciationAnalyzer component: its four useState cells, the
\* analysis requests and status requests in flight, its pending poll timers,
\* and what its last step did (onAnalysisComplete called or not)
VARIABLES paReferenceText, pronunciationJobId, paStatus, paIsAnalyzing,
          paSubmits, paRequests, paTimers, paNext, paLast

analyzerVars == <<paReferenceText, pronunciationJobId, paStatus, paIsAnalyzing,
                  paSubmits, paRequests, paTimers, paNext, paLast>>

\* the recorders started by App.startRecording, RecordingPage.startRecording
\* and audioService.startRecording: each session's closure array of chunks,
\* what its recorder has emitted, the blobs built on stop, and the recorder
\* the component currently holds
VARIABLES capSessions, capBlobs, capRecorder, capNext, capClock

captureVars == <<capSessions, capBlobs, capRecorder, capNext, capClock>>

\* ChatContainer: which useChatbot it was built with, its waiting flag, the
\* hook's loading, answer and error, the ask() calls in flight, and the
\* messages it shows
VARIABLES ccVariant, ccWaiting, ccLoading, ccAnswer, ccError, ccAsks, ccNext,
          ccMessages

containerVars == <<ccVariant, ccWaiting, ccLoading, ccAnswer, ccError, ccAsks,
                   ccNext, ccMessages>>

\* the other services, stores and components of the application
appVars == <<uploadVars, ttsVars, chatVars, settingsVars, playVars, analyzeVars,
             analyzerVars, captureVars, containerVars>>

vars == <<pollerVars, recVars, mimeVars, appVars>>

\* computed properties returned by the hook
isQueued == status = STATUS_TYPES("QUEUED")
isCompleted == status = STATUS_TYPES("COMPLETED")
isFailed == status = STATUS_TYPES("FAILED")

NoTimer == 0

Event(kind, job, st, tr, er, stale, ret) ==
    [kind |-> kind, job |-> job, status |-> st, transcript |-> tr,
     err |-> er, stale |-> stale, ret |-> ret]

\* a state setter of a component that has unmounted is a no-op
SetState(old, new) == IF mounted THEN new ELSE old

\* clearTimeout(pollingRef.current)
ClearTimeout(ts, ref) == { t \in ts : t.id # ref }

\* ------------------------------------------------- recording: state spaces
MaxStarts == 2
MaxTicks == 1

\* one id names a startRecording call, the stream it acquires, the recorder
\* built on that stream, the interval started for it and the blob it yields
RecIds == 1..MaxStarts

\* useRef(null)
NoRef == 0

\* useState(null) of a blob or object URL
NoBlob == 0

PreferredMimeTypes == <<"audio/webm;codecs=opus", "audio/webm", "audio/mp4", "audio/wav">>

\* AUDIO_CONFIG as the constants module defines it
AUDIO_CONFIG ==
    [sampleRate |-> 44100, channelCount |-> 1, audioBitsPerSecond |-> 128000,
     mimeTypes |-> PreferredMimeTypes]

\* AUDIO_CONFIG[k], undefined for a key the object does not have
ConfigValue(cfg, k) == IF k \in DOMAIN cfg THEN cfg[k] ELSE UNDEFINED

RecEvent(kind, call, ret) == [kind |-> kind, call |-> call, ret |-> ret]

\* the recording state of a component that has just been constructed
RecInit ==
    /\ liveStreams = {}
    /\ intervals = {}
    /\ recorders = [c \in RecIds |-> "none"]
    /\ pendingMedia = {}
    /\ nextRec = 1
    /\ isRecording = FALSE
    /\ recordingTime = 0
    /\ mediaRecorderRef = NoRef
    /\ timerRef = NoRef
    /\ lastRec = RecEvent("construct", 0, UNDEFINED)
    /\ deniedBefore = 0
    /\ audioBlob = NoBlob
    /\ audioUrl = NoBlob
    /\ toast = NULL
    /\ recordedBlob = NoBlob
    /\ recError = NULL
    /\ isSupported = TRUE
    /\ audioStreamRef = NoRef
    /\ audioConfig = AUDIO_CONFIG

\* no negotiation has run
MimeIdle ==
    /\ mimeTypes = <<>>
    /\ supportedTypes = {}
    /\ fallbackArg = UNDEFINED
    /\ negotiated = NULL

\* ---------------------------------------------------------------- poller
NoUpload == [via |-> "none", name |-> UNDEFINED, ext |-> UNDEFINED, type |-> UNDEFINED]

\* no blob handed to an upload path yet
UploadIdle ==
    /\ blobType = EMPTY
    /\ blobName = UNDEFINED
    /\ upload = NoUpload

\* words and languages asked of the TTS service
TtsTexts == {"hello", "bye"}
TtsLanguages == {"en"}

\* `tts_${language}_${text}`
cacheKey(text, language) == "tts_" \o language \o "_" \o text

TtsKeys == {cacheKey(t, l) : t \in TtsTexts, l \in TtsLanguages}

NoUrl == 0

TtsEvent(kind, key, url) == [kind |-> kind, key |-> key, url |-> url]

\* ttsService at module load: _cache = new Map(), listener registered
TtsInit ==
    /\ ttsCache = [k \in TtsKeys |-> NoUrl]
    /\ ttsCalls = {}
    /\ ttsTimers = {}
    /\ objectUrls = {}
    /\ revokedUrls = {}
    /\ nextTts = 1
    /\ pageLoaded = TRUE
    /\ lastTts = TtsEvent("load", UNDEFINED, NoUrl)

\* no session id (null in memory, no item in sessionStorage)
NoSession == 0

\* an id left in sessionStorage by the page before a reload
OldSessionId == 100

ChatEvent(kind, before, hookBefore) == [kind |-> kind, before |-> before, hookBefore |-> hookBefore]

\* chatbotService at module load, before a chat component mounts
ChatLoaded(stored) ==
    /\ currentSessionId = NoSession
    /\ storedSessionId = stored
    /\ hookSessionId = NoSession
    /\ chatMounted = FALSE
    /\ chatQueries = {}
    /\ nextSession = 1
    /\ nextQuery = 1
    /\ chatLast = ChatEvent("load", NoSession, NoSession)

SettingKeys == {"language", "theme", "audioVolume", "autoSave", "showNotifications", "compactMode"}

\* DEFAULT_SETTINGS, the volume in tenths
DEFAULT_SETTINGS ==
    [k \in SettingKeys |->
        CASE k = "language" -> "en"
          [] k = "theme" -> "dark"
          [] k = "audioVolume" -> 8
          [] k = "autoSave" -> TRUE
          [] k = "showNotifications" -> TRUE
          [] k = "compactMode" -> FALSE]

\* localStorage.getItem('app-settings'): null, text that is not JSON, or
\* the JSON text of an object, key by key
NoItem == [kind |-> "absent", pairs |-> <<>>]
CorruptItem == [kind |-> "corrupt", pairs |-> <<>>]
ObjectItem(pairs) == [kind |-> "object", pairs |-> pairs]

SettingsEvent(kind, saved, key, value) ==
    [kind |-> kind, saved |-> saved, key |-> key, value |-> value]

NoKey == "<none>"

\* SettingsProvider constructed: useState(DEFAULT_SETTINGS), useState(true)
SettingsConstructed(item) ==
    /\ settings = DEFAULT_SETTINGS
    /\ settingsLoading = TRUE
    /\ settingsPristine = TRUE
    /\ settingsMounted = FALSE
    /\ localSettings = item
    /\ settingOps = 0
    /\ settingsLast = SettingsEvent("construct", item, NoKey, NoKey)

PlayEvent(kind, outcome, ret, err) ==
    [kind |-> kind, outcome |-> outcome, ret |-> ret, err |-> err]

\* playRecording not called yet
PlayIdle ==
    /\ playbacks = {}
    /\ nextPlay = 1
    /\ lastPlay = PlayEvent("none", UNDEFINED, UNDEFINED, NULL)

\* App as constructed: its useState initial values
\* what the last step of PronunciationAnalyzer did
AnalyzerEvent(kind, st, analysis, signalled) ==
    [kind |-> kind, status |-> st, analysis |-> analysis, signalled |-> signalled]

\* PronunciationAnalyzer right after its first render
AnalyzerInit ==
    /\ paReferenceText = EMPTY
    /\ pronunciationJobId = NULL
    /\ paStatus = NULL
    /\ paIsAnalyzing = FALSE
    /\ paSubmits = {}
    /\ paRequests = {}
    /\ paTimers = {}
    /\ paNext = 1
    /\ paLast = AnalyzerEvent("init", NULL, UNDEFINED, FALSE)

\* ChatContainer before it mounts
ContainerInit ==
    /\ ccVariant = "none"
    /\ ccWaiting = FALSE
    /\ ccLoading = FALSE
    /\ ccAnswer = EMPTY
    /\ ccError = NULL
    /\ ccAsks = {}
    /\ ccNext = 1
    /\ ccMessages = <<>>

\* no recorder has been started
CaptureInit ==
    /\ capSessions = {}
    /\ capBlobs = {}
    /\ capRecorder = NoRef
    /\ capNext = 1
    /\ capClock = 1

AnalyzeInit ==
    /\ referenceText = EMPTY
    /\ appRecordedBlob = NoBlob
    /\ isAnalyzing = FALSE
    /\ appIsRecording = FALSE
    /\ appIsProcessing = FALSE
    /\ activeTab = "recorder"
    /\ analysisJobs = {}
    /\ nextAnalysis = 1
    /\ pronunciationStatus = NULL
    /\ appTranscript = EMPTY

AppIdle ==
    /\ AnalyzeInit
    /\ AnalyzerInit
    /\ CaptureInit
    /\ ContainerInit
    /\ UploadIdle
    /\ TtsInit
    /\ ChatLoaded(NoSession)
    /\ SettingsConstructed(NoItem)
    /\ PlayIdle

PollerInit ==
    /\ jobId = NULL
    /\ status = NULL
    /\ progress = 0
    /\ transcript = EMPTY
    /\ isProcessing = FALSE
    /\ error = NULL
    /\ pollingRef = NoTimer
    /\ timers = {}
    /\ nextTimer = 1
    /\ requests = {}
    /\ submits = {}
    /\ nextCall = 1
    /\ nextJob = 1
    /\ mounted = TRUE
    /\ cancelled = {}
    /\ polledSinceStart = FALSE
    /\ last = Event("init", NULL, NULL, UNDEFINED, UNDEFINED, FALSE, UNDEFINED)

\* a page that has just rendered: the poller idle, nothing recorded
Init == PollerInit /\ RecInit /\ MimeIdle /\ AppIdle

\* the six useState setters, applied together at the end of a handler
Apply(j, s, p, t, ip, e) ==
    /\ jobId' = SetState(jobId, j)
    /\ status' = SetState(status, s)
    /\ progress' = SetState(progress, p)
    /\ transcript' = SetState(transcript, t)
    /\ isProcessing' = SetState(isProcessing, ip)
    /\ error' = SetState(error, e)

\* ------------------------------------------------------ startTranscription
\* startTranscription(audioFile) with no file: reports and returns false
StartNoFile ==
    /\ mounted
    /\ Apply(jobId, status, progress, transcript, isProcessing,
             ERROR_MESSAGES("NO_AUDIO_FILE"))
    /\ last' = Event("startNoFile", NULL, NULL, UNDEFINED, UNDEFINED, FALSE, "false")
    /\ UNCHANGED <<pollingRef, timers, nextTimer, requests, submits, nextCall,
                   nextJob, mounted, cancelled, polledSinceStart>>

\* a start that forgets to reset the status
KeepStatusOnStart(s) == s

\* setStatus(null) of the "Reset state" block
ResetStatusOnStart(s) == NULL

\* startTranscription up to its await: reset, clear the timer, POST /transcribe
Start ==
    /\ mounted
    /\ nextCall <= MaxSubmits
    /\ Apply(NULL, ResetStatusOnStart(status), 0, EMPTY, TRUE, NULL)
    /\ timers' = IF pollingRef # NoTimer THEN ClearTimeout(timers, pollingRef) ELSE timers
    /\ pollingRef' = NoTimer
    /\ submits' = submits \cup {nextCall}
    /\ nextCall' = nextCall + 1
    /\ polledSinceStart' = FALSE
    /\ last' = Event("start", NULL, NULL, UNDEFINED, UNDEFINED, FALSE, UNDEFINED)
    /\ UNCHANGED <<nextTimer, requests, nextJob, mounted, cancelled>>

\* pollStatus(currentJobId) up to its await: GET /status/{job_id}
IssueStatusRequest(reqs, job) ==
    IF ~Truthy(job) THEN reqs ELSE reqs \cup {[job |-> job, stale |-> FALSE]}

\* the submit response carries a job id (or a body without one)
SubmitOk(c, jid) ==
    /\ c \in submits
    /\ nextJob <= MaxSubmits
    /\ jid \in {JobName(nextJob), UNDEFINED}
    /\ submits' = submits \ {c}
    /\ nextJob' = nextJob + 1
    /\ Apply(jid, status, progress, transcript, isProcessing, error)
    /\ requests' = IssueStatusRequest(requests, jid)
    /\ last' = Event("submitOk", jid, NULL, UNDEFINED, UNDEFINED, FALSE, "true")
    /\ UNCHANGED <<pollingRef, timers, nextTimer, nextCall, mounted, cancelled,
                   polledSinceStart>>

\* a catch block that always reports the generic upload message
SubmitFailureGeneric(e) == ERROR_MESSAGES("UPLOAD_FAILED")

\* error.message || ERROR_MESSAGES.UPLOAD_FAILED of the catch block
SubmitFailureMessage(e) == JsOr(handleApiCall(e), ERROR_MESSAGES("UPLOAD_FAILED"))

\* the submit request fails: response.error is set, the hook throws and catches
SubmitError(c, e) ==
    /\ c \in submits
    /\ e \in ApiErrors
    /\ submits' = submits \ {c}
    /\ Apply(jobId, status, progress, transcript, FALSE, SubmitFailureMessage(e))
    /\ last' = Event("submitError", NULL, NULL, UNDEFINED, handleApiCall(e), FALSE, "false")
    /\ UNCHANGED <<pollingRef, timers, nextTimer, requests, nextCall, nextJob,
                   mounted, cancelled, polledSinceStart>>

\* -------------------------------------------------------------- pollStatus
\* which of the three if-blocks after the setters a status value enters
PollBranch(st) ==
    IF st = STATUS_TYPES("COMPLETED") THEN "completed"
    ELSE IF st = STATUS_TYPES("FAILED") THEN "failed"
    ELSE IF st = STATUS_TYPES("PROCESSING") \/ st = STATUS_TYPES("QUEUED") THEN "continue"
    ELSE "none"

\* if (jobStatus.transcript) setTranscript(jobStatus.transcript)
MergeTranscript(old, new) == IF Truthy(new) THEN new ELSE old

\* a status response with a body
PollResponse(r, b) ==
    /\ r \in requests
    /\ b \in StatusBodies
    /\ LET br == PollBranch(b.status)
       IN  /\ br = "continue" => nextTimer <= MaxTimers
           /\ requests' = requests \ {r}
           /\ Apply(jobId, b.status, NumOr(b.progress, 0),
                    MergeTranscript(transcript, b.transcript),
                    IF br \in {"completed", "failed"} THEN FALSE ELSE isProcessing,
                    IF br = "failed"
                    THEN JsOr(b.error, ERROR_MESSAGES("TRANSCRIPTION_FAILED"))
                    ELSE error)
           /\ IF br = "continue"
              THEN /\ timers' = timers \cup {[id |-> nextTimer, job |-> r.job]}
                   /\ pollingRef' = nextTimer
                   /\ nextTimer' = nextTimer + 1
              ELSE UNCHANGED <<timers, pollingRef, nextTimer>>
    /\ polledSinceStart' = TRUE
    /\ last' = Event("pollResponse", r.job, b.status, b.transcript, b.error, r.stale, UNDEFINED)
    /\ UNCHANGED <<submits, nextCall, nextJob, mounted, cancelled>>

\* error.message || ERROR_MESSAGES.STATUS_CHECK_FAILED of the catch block
PollFailureMessage(m) == JsOr(m, ERROR_MESSAGES("STATUS_CHECK_FAILED"))

\* pollStatus's catch block
PollCatch(r, kind, m) ==
    /\ requests' = requests \ {r}
    /\ Apply(jobId, status, progress, transcript, FALSE, PollFailureMessage(m))
    /\ polledSinceStart' = TRUE
    /\ last' = Event(kind, r.job, UNDEFINED, UNDEFINED, m, r.stale, UNDEFINED)
    /\ UNCHANGED <<pollingRef, timers, nextTimer, submits, nextCall, nextJob,
                   mounted, cancelled>>

\* the status request fails in transport or with an HTTP error
PollError(r, e) ==
    /\ r \in requests
    /\ e \in ApiErrors
    /\ PollCatch(r, "pollError", handleApiCall(e))

\* a 200 response whose body is null: reading jobStatus.status throws
PollNullBody(r) ==
    /\ r \in requests
    /\ PollCatch(r, "pollNullBody", NullDataTypeError)

\* a repeating timer (setInterval) stays pending after its callback runs
FireTimerRepeating(ts, t) == ts

\* the timer leaves the pending set when its callback runs
FireTimer(ts, t) == ts \ {t}

\* the setTimeout callback: pollStatus(currentJobId)
TimerFire(t) ==
    /\ t \in timers
    /\ timers' = FireTimer(timers, t)
    /\ requests' = IssueStatusRequest(requests, t.job)
    /\ last' = Event("timerFire", t.job, UNDEFINED, UNDEFINED, UNDEFINED, FALSE, UNDEFINED)
    /\ UNCHANGED <<hookState, pollingRef, nextTimer, submits, nextCall, nextJob,
                   mounted, cancelled, polledSinceStart>>

\* -------------------------------------------------------- cancel and reset
\* jobs with a status request in flight or a poll timer pending
ActiveJobs == {r.job : r \in requests} \cup {t.job : t \in timers}

\* requests in flight when cancel runs are remembered as such
MarkStale(reqs) == {[job |-> r.job, stale |-> TRUE] : r \in reqs}

\* the effects cancelTranscription has outside the hook state
CancelEffects ==
    /\ timers' = IF pollingRef # NoTimer THEN ClearTimeout(timers, pollingRef) ELSE timers
    /\ pollingRef' = NoTimer
    /\ requests' = MarkStale(requests)
    /\ cancelled' = cancelled \cup ActiveJobs
    /\ UNCHANGED <<nextTimer, submits, nextCall, nextJob, mounted, polledSinceStart>>

cancelTranscription ==
    /\ mounted
    /\ CancelEffects
    /\ Apply(jobId, NULL, 0, transcript, FALSE, error)
    /\ last' = Event("cancel", NULL, NULL, UNDEFINED, UNDEFINED, FALSE, UNDEFINED)

resetTranscription ==
    /\ mounted
    /\ CancelEffects
    /\ Apply(NULL, NULL, 0, EMPTY, FALSE, NULL)
    /\ last' = Event("reset", NULL, NULL, UNDEFINED, UNDEFINED, FALSE, UNDEFINED)

\* the cleanup of the mount effect: clears the timer, keeps the ref
Unmount ==
    /\ mounted
    /\ mounted' = FALSE
    /\ timers' = IF pollingRef # NoTimer THEN ClearTimeout(timers, pollingRef) ELSE timers
    /\ last' = Event("unmount", NULL, NULL, UNDEFINED, UNDEFINED, FALSE, UNDEFINED)
    /\ UNCHANGED <<hookState, pollingRef, nextTimer, requests, submits, nextCall,
                   nextJob, cancelled, polledSinceStart>>

Next ==
    \/ StartNoFile /\ UNCHANGED <<recVars, mimeVars, appVars>>
    \/ Start /\ UNCHANGED <<recVars, mimeVars, appVars>>
    \/ \E c \in submits : \E jid \in {JobName(nextJob), UNDEFINED} : SubmitOk(c, jid) /\ UNCHANGED <<recVars, mimeVars, appVars>>
    \/ \E c \in submits : \E e \in ApiErrors : SubmitError(c, e) /\ UNCHANGED <<recVars, mimeVars, appVars>>
    \/ \E r \in requests : \E b \in StatusBodies : PollResponse(r, b) /\ UNCHANGED <<recVars, mimeVars, appVars>>
    \/ \E r \in requests : \E e \in ApiErrors : PollError(r, e) /\ UNCHANGED <<recVars, mimeVars, appVars>>
    \/ \E r \in requests : PollNullBody(r) /\ UNCHANGED <<recVars, mimeVars, appVars>>
    \/ \E t \in timers : TimerFire(t) /\ UNCHANGED <<recVars, mimeVars, appVars>>
    \/ cancelTranscription /\ UNCHANGED <<recVars, mimeVars, appVars>>
    \/ resetTranscription /\ UNCHANGED <<recVars, mimeVars, appVars>>

\* the hook while its component stays mounted
SpecPoller == Init /\ [][Next]_vars

\* the hook over the whole life of its component, unmount included
NextWithUnmount == Next \/ (Unmount /\ UNCHANGED <<recVars, mimeVars, appVars>>)

SpecPollerUnmount == Init /\ [][NextWithUnmount]_vars

\* ------------------------------------------- RecordingPage: record and reset
\* what the browser answers to getUserMedia and to the recorder's construction
\* and start: the stream with a working recorder, a stream on which
\* new MediaRecorder or recorder.start throws, or a rejection by name
MediaRejections ==
    {"NotAllowedError", "NotFoundError", "NotSupportedError", "SecurityError", "AbortError"}

MediaOutcomes == {"granted", "constructorThrows", "startThrows"} \cup MediaRejections

\* the message of startRecording's catch block for an error of this name
PageErrorMessage(name) ==
    IF name = "NotAllowedError"
    THEN "Microphone permission denied. Please allow microphone access and try again."
    ELSE IF name = "NotFoundError"
    THEN "No microphone found. Please check your device settings."
    ELSE IF name = "NotSupportedError"
    THEN "Audio recording not supported on this device or browser."
    ELSE IF name = "SecurityError"
    THEN "Microphone access blocked. Please ensure you're using HTTPS and try again."
    ELSE "Could not access microphone."

\* the record button while not recording: startRecording up to its await
PageStartRecording(hasGetUserMedia) ==
    /\ mounted
    /\ ~isRecording
    /\ nextRec <= MaxStarts
    /\ IF hasGetUserMedia
       THEN /\ pendingMedia' = pendingMedia \cup {nextRec}
            /\ nextRec' = nextRec + 1
            /\ lastRec' = RecEvent("startCalled", nextRec, UNDEFINED)
            /\ UNCHANGED toast
       ELSE /\ toast' = "Audio recording not supported on this device"
            /\ lastRec' = RecEvent("startUnsupported", 0, UNDEFINED)
            /\ UNCHANGED <<pendingMedia, nextRec>>
    /\ UNCHANGED <<liveStreams, intervals, recorders, recorderState, deniedBefore,
                   audioBlob, audioUrl, recHookState>>

\* a start that keeps the elapsed time of the previous recording
KeepRecordingTime(t) == t

\* setRecordingTime(0) of a start
ResetRecordingTime(t) == 0

\* getUserMedia settles and startRecording runs to its end
PageMediaSettles(c, outcome) ==
    /\ c \in pendingMedia
    /\ outcome \in MediaOutcomes
    /\ pendingMedia' = pendingMedia \ {c}
    /\ liveStreams' = IF outcome \in MediaRejections THEN liveStreams
                      ELSE liveStreams \cup {c}
    /\ mediaRecorderRef' = IF outcome \in {"granted", "startThrows"} THEN c
                           ELSE mediaRecorderRef
    /\ IF outcome = "granted"
       THEN /\ recorders' = [recorders EXCEPT ![c] = "recording"]
            /\ isRecording' = SetState(isRecording, TRUE)
            /\ recordingTime' = SetState(recordingTime, ResetRecordingTime(recordingTime))
            /\ timerRef' = c
            /\ intervals' = intervals \cup {c}
            /\ toast' = "Recording started!"
            /\ lastRec' = RecEvent("started", c, UNDEFINED)
       ELSE /\ toast' = PageErrorMessage(IF outcome = "constructorThrows"
                                          THEN "NotSupportedError"
                                          ELSE IF outcome = "startThrows"
                                          THEN "InvalidStateError"
                                          ELSE outcome)
            /\ lastRec' = RecEvent("startFailed", c, outcome)
            /\ UNCHANGED <<recorders, isRecording, recordingTime, timerRef, intervals>>
    /\ deniedBefore' = IF outcome = "NotAllowedError" THEN nextRec ELSE deniedBefore
    /\ UNCHANGED <<nextRec, audioBlob, audioUrl, recHookState>>

\* the record button while recording: stopRecording
PageStopRecording ==
    /\ mounted
    /\ isRecording
    /\ IF mediaRecorderRef = NoRef
       THEN UNCHANGED <<recorders, isRecording, intervals, toast>>
       ELSE IF recorders[mediaRecorderRef] # "recording"
       THEN UNCHANGED <<recorders, isRecording, intervals, toast>>
       ELSE /\ recorders' = [recorders EXCEPT ![mediaRecorderRef] = "stopping"]
            /\ isRecording' = FALSE
            /\ intervals' = intervals \ {timerRef}
            /\ toast' = "Recording stopped!"
    /\ lastRec' = RecEvent("stop", mediaRecorderRef, UNDEFINED)
    /\ UNCHANGED <<liveStreams, pendingMedia, nextRec, recordingTime, mediaRecorderRef,
                   timerRef, deniedBefore, audioBlob, audioUrl, recHookState>>

\* mediaRecorder.onstop: build the blob and its URL, then release the stream;
\* a throw while building the blob ends the handler there
PageRecorderStop(c, blobBuilt) ==
    /\ c \in RecIds
    /\ recorders[c] = "stopping"
    /\ recorders' = [recorders EXCEPT ![c] = "inactive"]
    /\ IF blobBuilt
       THEN /\ audioBlob' = SetState(audioBlob, c)
            /\ audioUrl' = SetState(audioUrl, c)
            /\ liveStreams' = liveStreams \ {c}
       ELSE UNCHANGED <<audioBlob, audioUrl, liveStreams>>
    /\ lastRec' = RecEvent("stopEvent", c, IF blobBuilt THEN "blob" ELSE "throws")
    /\ UNCHANGED <<intervals, pendingMedia, nextRec, recorderState, deniedBefore,
                   toast, recHookState>>

\* the setInterval callback: setRecordingTime(prev => prev + 1)
Tick(c) ==
    /\ c \in intervals
    /\ mounted
    /\ recordingTime < MaxTicks
    /\ recordingTime' = recordingTime + 1
    /\ lastRec' = RecEvent("tick", c, UNDEFINED)
    /\ UNCHANGED <<mediaVars, isRecording, mediaRecorderRef, timerRef, deniedBefore,
                   pageState, recHookState>>

\* the Reset button (disabled while isRecording): resetRecording, which
\* also resets the page's poller
resetRecording ==
    /\ mounted
    /\ ~isRecording
    /\ recordingTime' = 0
    /\ isRecording' = FALSE
    /\ audioBlob' = NoBlob
    /\ audioUrl' = NoBlob
    /\ intervals' = intervals \ {timerRef}
    /\ resetTranscription
    /\ toast' = "Recording reset"
    /\ lastRec' = RecEvent("reset", 0, UNDEFINED)
    /\ UNCHANGED <<liveStreams, recorders, pendingMedia, nextRec, mediaRecorderRef,
                   timerRef, deniedBefore, recHookState>>

\* the page leaves the screen: it registers no cleanup of its own, only the
\* poller's unmount effect runs
PageUnmount ==
    /\ Unmount
    /\ lastRec' = RecEvent("unmount", 0, UNDEFINED)
    /\ UNCHANGED <<mediaVars, recorderState, deniedBefore, pageState, recHookState>>

NextPage ==
    \/ \E has \in BOOLEAN : PageStartRecording(has) /\ UNCHANGED <<pollerVars, mimeVars, appVars>>
    \/ \E c \in pendingMedia : \E o \in MediaOutcomes :
            PageMediaSettles(c, o) /\ UNCHANGED <<pollerVars, mimeVars, appVars>>
    \/ PageStopRecording /\ UNCHANGED <<pollerVars, mimeVars, appVars>>
    \/ \E c \in RecIds : \E built \in BOOLEAN :
            PageRecorderStop(c, built) /\ UNCHANGED <<pollerVars, mimeVars, appVars>>
    \/ \E c \in intervals : Tick(c) /\ UNCHANGED <<pollerVars, mimeVars, appVars>>
    \/ resetRecording /\ UNCHANGED <<mimeVars, appVars>>
    \/ PageUnmount /\ UNCHANGED <<mimeVars, appVars>>

\* the recording controls of RecordingPage
SpecPage == Init /\ [][NextPage]_vars

\* ------------------------------------------------------------ audioService
\* the first type of the list the runtime supports, the fallback if none
RECURSIVE FirstSupported(_, _, _)
FirstSupported(types, supported, fallback) ==
    IF types = <<>> THEN fallback
    ELSE IF Head(types) \in supported THEN Head(types)
    ELSE FirstSupported(Tail(types), supported, fallback)

DefaultFallback == "audio/webm"

\* a negotiation that never probes the runtime
NegotiateFallbackOnly(types, fallback, supported) ==
    IF fallback = UNDEFINED THEN DefaultFallback ELSE fallback

\* getSupportedMimeType(mimeTypes, fallback = 'audio/webm') for an array
getSupportedMimeType(types, fallback, supported) ==
    FirstSupported(types, supported, IF fallback = UNDEFINED THEN DefaultFallback ELSE fallback)

\* an AUDIO_CONFIG that defines the keys audioService reads
ConfiguredAudio ==
    [sampleRate |-> 44100, channelCount |-> 1, audioBitsPerSecond |-> 128000,
     mimeTypes |-> PreferredMimeTypes,
     supportedMimeTypes |-> PreferredMimeTypes, fallbackMimeType |-> "audio/webm"]

AudioConfigs == {AUDIO_CONFIG, ConfiguredAudio}

\* MediaRecorder.isTypeSupported in the runtimes considered
Runtimes == {{}, {"audio/mp4", "audio/wav"}}

\* createMediaRecorder(stream): the negotiation runs outside the try and
\* iterates AUDIO_CONFIG.supportedMimeTypes; the constructor runs inside it
createMediaRecorder(cfg, supported, constructs) ==
    IF "supportedMimeTypes" \notin DOMAIN cfg
    THEN [outcome |-> "throws", mimeType |-> NULL, error |-> "mimeTypes is not iterable"]
    ELSE IF constructs
    THEN [outcome |-> "recorder",
          mimeType |-> getSupportedMimeType(cfg.supportedMimeTypes,
                                            ConfigValue(cfg, "fallbackMimeType"), supported),
          error |-> NULL]
    ELSE [outcome |-> "error", mimeType |-> NULL, error |-> "Failed to create media recorder"]

\* checkRecordingSupport(): filters AUDIO_CONFIG.supportedMimeTypes through
\* MediaRecorder.isTypeSupported, so it throws where either is missing
checkRecordingSupport(cfg, hasGetUserMedia, hasMediaRecorder) ==
    IF "supportedMimeTypes" \notin DOMAIN cfg \/ ~hasMediaRecorder THEN "throws"
    ELSE IF hasGetUserMedia THEN "supported"
    ELSE "unsupported"

\* ------------------------------------------------------- useAudioRecording
\* the hook's cleanup effect: stopRecording() of the render it belongs to,
\* then the interval and the stream the refs hold when it runs
CleanupRecorders(wasRecording, ref, recs) ==
    IF wasRecording /\ ref # NoRef /\ recs[ref] = "recording"
    THEN [recs EXCEPT ![ref] = "stopping"]
    ELSE recs

CleanupIntervals(ref, ivs) == IF ref # NoRef THEN ivs \ {ref} ELSE ivs

CleanupStreams(ref, live) == IF ref # NoRef THEN live \ {ref} ELSE live

\* the end of a handler that leaves the values r: the setters take effect
\* while mounted; a changed state re-renders, which gives the effect new
\* dependencies (isRecording, and stopRecording through the options object
\* built by every render), so the previous render's cleanup runs
HookCommit(r) ==
    LET now == <<isRecording, recordedBlob, recordingTime, recError, isSupported>>
        set == IF mounted THEN <<r.rec, r.blob, r.time, r.err, r.sup>> ELSE now
        rerender == set # now
    IN  /\ isRecording' = set[1]
        /\ recordedBlob' = set[2]
        /\ recordingTime' = set[3]
        /\ recError' = set[4]
        /\ isSupported' = set[5]
        /\ mediaRecorderRef' = r.mref
        /\ audioStreamRef' = r.sref
        /\ timerRef' = r.tref
        /\ recorders' = IF rerender THEN CleanupRecorders(isRecording, r.mref, r.recs)
                        ELSE r.recs
        /\ intervals' = IF rerender THEN CleanupIntervals(r.tref, r.ivs) ELSE r.ivs
        /\ liveStreams' = IF rerender THEN CleanupStreams(r.sref, r.live) ELSE r.live

\* the values a handler starts from
Current ==
    [rec |-> isRecording, blob |-> recordedBlob, time |-> recordingTime,
     err |-> recError, sup |-> isSupported, mref |-> mediaRecorderRef,
     sref |-> audioStreamRef, tref |-> timerRef, recs |-> recorders,
     ivs |-> intervals, live |-> liveStreams]

\* the hook as constructed, with the AUDIO_CONFIG its service imports
InitHook ==
    /\ PollerInit
    /\ MimeIdle
    /\ AppIdle
    /\ audioConfig \in AudioConfigs
    /\ liveStreams = {}
    /\ intervals = {}
    /\ recorders = [c \in RecIds |-> "none"]
    /\ pendingMedia = {}
    /\ nextRec = 1
    /\ isRecording = FALSE
    /\ recordingTime = 0
    /\ mediaRecorderRef = NoRef
    /\ timerRef = NoRef
    /\ lastRec = RecEvent("construct", 0, UNDEFINED)
    /\ deniedBefore = 0
    /\ audioBlob = NoBlob
    /\ audioUrl = NoBlob
    /\ toast = NULL
    /\ recordedBlob = NoBlob
    /\ recError = NULL
    /\ isSupported = TRUE
    /\ audioStreamRef = NoRef

\* the mount effect; an effect that throws takes the component down
MountEffect(hasGetUserMedia, hasMediaRecorder) ==
    /\ lastRec.kind = "construct"
    /\ LET support == checkRecordingSupport(audioConfig, hasGetUserMedia, hasMediaRecorder)
       IN  /\ mounted' = (support # "throws")
           /\ isSupported' = (support # "unsupported")
           /\ recError' = IF support = "unsupported"
                          THEN "Audio recording is not supported in this browser"
                          ELSE recError
           /\ lastRec' = RecEvent("mountEffect", 0, support)
    /\ UNCHANGED <<mediaVars, recorderState, deniedBefore, pageState, recordedBlob,
                   audioStreamRef, audioConfig>>

\* startRecording up to its await
startRecording ==
    /\ mounted
    /\ lastRec.kind # "construct"
    /\ IF ~isSupported
       THEN /\ HookCommit([Current EXCEPT !.err = "Audio recording is not supported"])
            /\ lastRec' = RecEvent("startRefused", 0, "false")
            /\ UNCHANGED <<pendingMedia, nextRec>>
       ELSE IF isRecording
       THEN /\ HookCommit(Current)
            /\ lastRec' = RecEvent("startRefused", 0, "false")
            /\ UNCHANGED <<pendingMedia, nextRec>>
       ELSE /\ nextRec <= MaxStarts
            /\ HookCommit([Current EXCEPT !.err = NULL, !.blob = NoBlob, !.time = 0])
            /\ pendingMedia' = pendingMedia \cup {nextRec}
            /\ nextRec' = nextRec + 1
            /\ lastRec' = RecEvent("startCalled", nextRec, UNDEFINED)
    /\ UNCHANGED <<deniedBefore, pageState, audioConfig>>

\* what getUserMediaStream, the constructor and recorder.start answer
HookMediaOutcomes == {"granted", "constructorThrows", "startThrows", "rejected"}

MicrophoneMessage == "Could not access microphone. Please check permissions."

\* the values startRecording leaves once getUserMediaStream has settled
StartResult(c, outcome, supported) ==
    LET cm == createMediaRecorder(audioConfig, supported, outcome # "constructorThrows")
    IN  IF outcome = "rejected"
        THEN [Current EXCEPT !.err = MicrophoneMessage]
        ELSE IF cm.outcome = "throws"
        THEN [Current EXCEPT !.sref = c, !.live = @ \cup {c},
                             !.err = JsOr(cm.error, ERROR_MESSAGES("MICROPHONE_ACCESS"))]
        ELSE IF cm.outcome = "error"
        THEN [Current EXCEPT !.sref = c, !.err = cm.error]
        ELSE IF outcome = "startThrows"
        THEN [Current EXCEPT !.sref = c, !.mref = c,
                             !.err = "Failed to start recording"]
        ELSE [Current EXCEPT !.sref = c, !.mref = c, !.tref = c, !.rec = TRUE,
                             !.recs = [@ EXCEPT ![c] = "recording"],
                             !.ivs = @ \cup {c}, !.live = @ \cup {c}]

\* getUserMediaStream settles and startRecording runs to its end
HookMediaSettles(c, outcome, supported) ==
    /\ c \in pendingMedia
    /\ outcome \in HookMediaOutcomes
    /\ supported \in Runtimes
    /\ pendingMedia' = pendingMedia \ {c}
    /\ LET r == StartResult(c, outcome, supported)
       IN  /\ HookCommit(r)
           /\ lastRec' = IF r.mref = c /\ r.tref = c
                         THEN RecEvent("started", c, "true")
                         ELSE RecEvent("startFailed", c, "false")
    /\ deniedBefore' = IF outcome = "rejected" THEN nextRec ELSE deniedBefore
    /\ UNCHANGED <<nextRec, pageState, audioConfig>>

\* a refused stop that reports an error
StopRefusedReports(e) == "No active recording to stop"

\* a refused stop only warns on the console
StopRefusedError(e) == e

\* the recorder stopRecording() stops, if any
StoppedBy(rec, ref, recs) ==
    IF rec /\ ref # NoRef /\ recs[ref] = "recording" THEN ref ELSE NoRef

stopRecording ==
    /\ mounted
    /\ lastRec.kind # "construct"
    /\ LET c == StoppedBy(isRecording, mediaRecorderRef, recorders)
       IN  /\ HookCommit(IF c = NoRef
                         THEN [Current EXCEPT !.err = StopRefusedError(@)]
                         ELSE [Current EXCEPT !.recs = [@ EXCEPT ![c] = "stopping"]])
           /\ lastRec' = RecEvent("stop", c, IF c = NoRef THEN "false" ELSE "true")
    /\ UNCHANGED <<pendingMedia, nextRec, deniedBefore, pageState, audioConfig>>

\* recorder.onstop of audioService.startRecording, then the hook's handleStop;
\* a throw while building the blob ends the handler before handleStop
HookRecorderStop(c, blobBuilt) ==
    /\ c \in RecIds
    /\ recorders[c] = "stopping"
    /\ HookCommit(IF blobBuilt
                  THEN [Current EXCEPT !.blob = c, !.rec = FALSE,
                                       !.live = CleanupStreams(audioStreamRef, @),
                                       !.sref = NoRef, !.mref = NoRef,
                                       !.ivs = CleanupIntervals(timerRef, @),
                                       !.tref = NoRef,
                                       !.recs = [@ EXCEPT ![c] = "inactive"]]
                  ELSE [Current EXCEPT !.recs = [@ EXCEPT ![c] = "inactive"]])
    /\ lastRec' = RecEvent("stopEvent", c, IF blobBuilt THEN "blob" ELSE "throws")
    /\ UNCHANGED <<pendingMedia, nextRec, deniedBefore, pageState, audioConfig>>

\* the hook's setInterval callback
HookTick(c) ==
    /\ c \in intervals
    /\ mounted
    /\ recordingTime < MaxTicks
    /\ HookCommit([Current EXCEPT !.time = @ + 1])
    /\ lastRec' = RecEvent("tick", c, UNDEFINED)
    /\ UNCHANGED <<pendingMedia, nextRec, deniedBefore, pageState, audioConfig>>

clearRecording ==
    /\ mounted
    /\ lastRec.kind # "construct"
    /\ LET c == StoppedBy(isRecording, mediaRecorderRef, recorders)
       IN  /\ HookCommit([Current EXCEPT
                             !.recs = IF c = NoRef THEN @ ELSE [@ EXCEPT ![c] = "stopping"],
                             !.blob = NoBlob, !.time = 0, !.err = NULL])
           /\ lastRec' = RecEvent("clear", c, UNDEFINED)
    /\ UNCHANGED <<pendingMedia, nextRec, deniedBefore, pageState, audioConfig>>

MaxPlays == 1

\* how a playback ends: the clip plays to its end, the element reports a
\* media error, or audio.play() rejects
PlaybackOutcomes == {"ended", "error", "NotAllowedError", "NotSupportedError", "AbortError"}

\* error.message of a rejected audio.play()
PlayErrorMessage(name) ==
    CASE name = "NotAllowedError" -> "play() failed because the user didn't interact with the document first."
      [] name = "NotSupportedError" -> "The element has no supported sources."
      [] OTHER -> "The play() request was interrupted."

\* a playAudioBlob that reports every failure alike
GenericPlaybackMessage(outcome) == "Audio playback failed"

\* the message of the Error playAudioBlob rejects with
PlaybackMessage(outcome) ==
    CASE outcome = "error" -> "Audio playback failed"
      [] outcome = "NotAllowedError" ->
            "Audio playback blocked. Please enable audio permissions or interact with the page first."
      [] outcome = "NotSupportedError" -> "Audio format not supported by this browser."
      [] OTHER -> "Failed to play audio: " \o PlayErrorMessage(outcome)

\* playRecording() up to its await: without a blob it fails at once,
\* with one playAudioBlob creates the element and calls play()
playRecording ==
    /\ mounted
    /\ lastRec.kind # "construct"
    /\ nextPlay <= MaxPlays
    /\ nextPlay' = nextPlay + 1
    /\ IF recordedBlob = NoBlob
       THEN /\ HookCommit([Current EXCEPT !.err = "No recording available to play"])
            /\ lastPlay' = PlayEvent("refused", UNDEFINED, FALSE, "No recording available to play")
            /\ UNCHANGED playbacks
       ELSE /\ HookCommit(Current)
            /\ playbacks' = playbacks \cup {[id |-> nextPlay, blob |-> recordedBlob]}
            /\ lastPlay' = PlayEvent("started", UNDEFINED, UNDEFINED, NULL)
    /\ UNCHANGED <<pendingMedia, nextRec, lastRec, deniedBefore, pageState, audioConfig>>

\* the playback settles and playRecording resumes after its await
PlaybackSettles(p, outcome) ==
    /\ playbacks' = playbacks \ {p}
    /\ IF outcome = "ended"
       THEN /\ HookCommit(Current)
            /\ lastPlay' = PlayEvent("played", outcome, TRUE, NULL)
       ELSE LET errorMessage == JsOr(PlaybackMessage(outcome), "Failed to play recording")
            IN  /\ HookCommit([Current EXCEPT !.err = errorMessage])
                /\ lastPlay' = PlayEvent("failed", outcome, FALSE, errorMessage)
    /\ UNCHANGED <<nextPlay, pendingMedia, nextRec, lastRec, deniedBefore, pageState, audioConfig>>

\* state of the application the playback does not touch
playRest == <<uploadVars, ttsVars, chatVars, settingsVars, analyzeVars, analyzerVars, captureVars, containerVars>>

\* the component unmounts: the cleanup of the last render runs
HookUnmount ==
    /\ mounted
    /\ lastRec.kind # "construct"
    /\ mounted' = FALSE
    /\ recorders' = CleanupRecorders(isRecording, mediaRecorderRef, recorders)
    /\ intervals' = CleanupIntervals(timerRef, intervals)
    /\ liveStreams' = CleanupStreams(audioStreamRef, liveStreams)
    /\ lastRec' = RecEvent("unmount", 0, UNDEFINED)
    /\ UNCHANGED <<pendingMedia, nextRec, recorderState, deniedBefore, pageState,
                   recHookState>>

\* the poller's variables other than mounted
pollerRest == <<jobId, status, progress, transcript, isProcessing, error,
                pollingRef, timers, nextTimer, requests, submits, nextCall, nextJob,
                cancelled, polledSinceStart, last>>

NextHook ==
    \/ \E gum \in BOOLEAN : \E mr \in BOOLEAN :
            MountEffect(gum, mr) /\ UNCHANGED <<pollerRest, mimeVars, appVars>>
    \/ startRecording /\ UNCHANGED <<pollerVars, mimeVars, appVars>>
    \/ \E c \in pendingMedia : \E o \in HookMediaOutcomes : \E sup \in Runtimes :
            HookMediaSettles(c, o, sup) /\ UNCHANGED <<pollerVars, mimeVars, appVars>>
    \/ stopRecording /\ UNCHANGED <<pollerVars, mimeVars, appVars>>
    \/ \E c \in RecIds : \E built \in BOOLEAN :
            HookRecorderStop(c, built) /\ UNCHANGED <<pollerVars, mimeVars, appVars>>
    \/ \E c \in intervals : HookTick(c) /\ UNCHANGED <<pollerVars, mimeVars, appVars>>
    \/ clearRecording /\ UNCHANGED <<pollerVars, mimeVars, appVars>>
    \/ HookUnmount /\ UNCHANGED <<pollerRest, mimeVars, appVars>>
    \/ playRecording /\ UNCHANGED <<pollerVars, mimeVars, playRest>>
    \/ \E p \in playbacks : \E o \in PlaybackOutcomes :
            PlaybackSettles(p, o) /\ UNCHANGED <<pollerVars, mimeVars, playRest>>

\* useAudioRecording with audioService
SpecHook == InitHook /\ [][NextHook]_vars

\* ----------------------------------------------------- MIME negotiation
MaxListLen == 2

\* the types a runtime may or may not support
MimeUniverse == {PreferredMimeTypes[i] : i \in 1..Len(PreferredMimeTypes)}

\* the lists of at most n types
RECURSIVE ListsUpTo(_)
ListsUpTo(n) ==
    IF n = 0 THEN {<<>>}
    ELSE LET shorter == ListsUpTo(n - 1)
         IN  shorter \cup {Append(l, t) : l \in {x \in shorter : Len(x) = n - 1},
                                          t \in MimeUniverse}

\* the fallback argument: omitted, or a type of the caller's
FallbackArgs == {UNDEFINED, "audio/ogg"}

\* a caller about to negotiate: its list, its fallback, the runtime's support
InitMime ==
    /\ PollerInit
    /\ RecInit
    /\ AppIdle
    /\ mimeTypes \in ListsUpTo(MaxListLen)
    /\ supportedTypes \in SUBSET MimeUniverse
    /\ fallbackArg \in FallbackArgs
    /\ negotiated = NULL

\* getSupportedMimeType(mimeTypes, fallback)
Negotiate ==
    /\ negotiated = NULL
    /\ negotiated' = getSupportedMimeType(mimeTypes, fallbackArg, supportedTypes)
    /\ UNCHANGED <<mimeTypes, supportedTypes, fallbackArg>>

\* the list App.startRecording probes
AppSupportedTypes == <<"audio/webm;codecs=opus", "audio/webm", "audio/mp4", "audio/wav">>

\* the loop of App.startRecording: mimeType stays '' when no type is supported
AppProbe(supported) == FirstSupported(AppSupportedTypes, supported, EMPTY)

\* the negotiation inlined in App.startRecording
AppNegotiate ==
    /\ negotiated = NULL
    /\ mimeTypes' = AppSupportedTypes
    /\ fallbackArg' = "audio/webm"
    /\ negotiated' = JsOr(AppProbe(supportedTypes), "audio/webm")
    /\ UNCHANGED supportedTypes

NextMime ==
    \/ Negotiate /\ UNCHANGED <<pollerVars, recVars, appVars>>
    \/ AppNegotiate /\ UNCHANGED <<pollerVars, recVars, appVars>>

\* the two negotiations over every list, fallback and runtime
SpecMime == InitMime /\ [][NextMime]_vars

\* ------------------------------------------------------ upload file names
\* String.prototype.includes
Includes(s, k) ==
    \E i \in 1..(Len(s) - Len(k) + 1) : SubSeq(s, i, i + Len(k) - 1) = k

\* the chain of tests on the MIME type that picks the extension
ExtensionFor(mimeType) ==
    IF Includes(mimeType, "webm") THEN ".webm"
    ELSE IF Includes(mimeType, "mp4") \/ Includes(mimeType, "m4a") THEN ".m4a"
    ELSE IF Includes(mimeType, "mpeg") \/ Includes(mimeType, "mp3") THEN ".mp3"
    ELSE IF Includes(mimeType, "ogg") THEN ".ogg"
    ELSE IF Includes(mimeType, "flac") THEN ".flac"
    ELSE ".wav"

\* new File([blob], name, {type})
File(name, type) == [name |-> name, type |-> type]

\* createFileFromBlob(blob, baseName)
createFileFromBlob(type, baseName) ==
    LET mimeType == JsOr(type, "audio/wav")
    IN  File(baseName \o ExtensionFor(mimeType), mimeType)

\* the file transcribeAudio and analyzePronunciation append to the form:
\* a blob without a name (or named 'blob') becomes recording<ext>
FileToUpload(type, name) ==
    IF (~Truthy(name)) \/ name = "blob"
    THEN LET mimeType == JsOr(type, "audio/wav")
         IN  File("recording" \o ExtensionFor(mimeType), mimeType)
    ELSE File(name, type)

\* the file apiService.startPronunciationAnalysis builds from the blob
RecordedFile(type) ==
    File("recording" \o (IF Includes(type, "webm") THEN ".webm" ELSE ".wav"), type)

\* the MIME types a blob may carry ('' when the recorder gave none)
BlobTypes ==
    {EMPTY, "audio/webm;codecs=opus", "audio/webm", "audio/mp4", "audio/x-m4a",
     "audio/mpeg", "audio/mp3", "audio/ogg", "audio/flac", "audio/wav",
     "audio/wave", "audio/aac"}

\* a Blob has no name; a File has one
BlobNames == {UNDEFINED, "blob", "clip.ogg"}

BaseNames == {"recording", "take"}

Sent(via, file) == [via |-> via, name |-> file.name, type |-> file.type]

InitUpload ==
    /\ PollerInit
    /\ RecInit
    /\ MimeIdle
    /\ TtsInit
    /\ ChatLoaded(NoSession)
    /\ SettingsConstructed(NoItem)
    /\ PlayIdle
    /\ AnalyzeInit
    /\ AnalyzerInit
    /\ CaptureInit
    /\ ContainerInit
    /\ blobType \in BlobTypes
    /\ blobName \in BlobNames
    /\ upload = NoUpload

\* apiService.transcribeAudio(audioFile)
transcribeAudio ==
    /\ upload = NoUpload
    /\ upload' = Sent("transcribeAudio", FileToUpload(blobType, blobName))
    /\ UNCHANGED <<blobType, blobName>>

\* apiService.analyzePronunciation(audioFile, referenceText)
analyzePronunciation ==
    /\ upload = NoUpload
    /\ upload' = Sent("analyzePronunciation", FileToUpload(blobType, blobName))
    /\ UNCHANGED <<blobType, blobName>>

\* apiService.startPronunciationAnalysis(recordedBlob, referenceText): the
\* file it builds has a name, so analyzePronunciation sends it as it is
startPronunciationAnalysis ==
    /\ upload = NoUpload
    /\ LET recordedFile == RecordedFile(blobType)
       IN  upload' = Sent("startPronunciationAnalysis",
                          FileToUpload(recordedFile.type, recordedFile.name))
    /\ UNCHANGED <<blobType, blobName>>

\* audioService.blobToFile(blob, baseName)
blobToFile(baseName) ==
    /\ upload = NoUpload
    /\ upload' = Sent("createFileFromBlob", createFileFromBlob(blobType, baseName))
    /\ UNCHANGED <<blobType, blobName>>

\* App.startTranscription and App.startPronunciationAnalysis with a recording
AppRecordedUpload(via) ==
    /\ upload = NoUpload
    /\ LET mimeType == JsOr(blobType, "audio/wav")
       IN  upload' = Sent(via, File("recording" \o ExtensionFor(mimeType), mimeType))
    /\ UNCHANGED <<blobType, blobName>>

NextUpload ==
    \/ transcribeAudio /\ UNCHANGED <<pollerVars, recVars, mimeVars, ttsVars, chatVars, settingsVars, playVars, analyzeVars, analyzerVars, captureVars, containerVars>>
    \/ analyzePronunciation /\ UNCHANGED <<pollerVars, recVars, mimeVars, ttsVars, chatVars, settingsVars, playVars, analyzeVars, analyzerVars, captureVars, containerVars>>
    \/ startPronunciationAnalysis /\ UNCHANGED <<pollerVars, recVars, mimeVars, ttsVars, chatVars, settingsVars, playVars, analyzeVars, analyzerVars, captureVars, containerVars>>
    \/ \E b \in BaseNames : blobToFile(b) /\ UNCHANGED <<pollerVars, recVars, mimeVars, ttsVars, chatVars, settingsVars, playVars, analyzeVars, analyzerVars, captureVars, containerVars>>
    \/ \E via \in {"App.startTranscription", "App.startPronunciationAnalysis"} :
            AppRecordedUpload(via) /\ UNCHANGED <<pollerVars, recVars, mimeVars, ttsVars, chatVars, settingsVars, playVars, analyzeVars, analyzerVars, captureVars, containerVars>>

\* every upload path applied to every blob
SpecUpload == InitUpload /\ [][NextUpload]_vars

\* ------------------------------------------------------------- ttsService
MaxTtsCalls == 3

\* cachePronunciation(text, language) up to its await: a hit returns the
\* cached URL, a miss asks the server to synthesise
cachePronunciation(text, language) ==
    LET key == cacheKey(text, language)
    IN  /\ pageLoaded
        /\ nextTts <= MaxTtsCalls
        /\ nextTts' = nextTts + 1
        /\ IF ttsCache[key] # NoUrl
           THEN /\ lastTts' = TtsEvent("hit", key, ttsCache[key])
                /\ UNCHANGED ttsCalls
           ELSE /\ ttsCalls' = ttsCalls \cup {[id |-> nextTts, key |-> key]}
                /\ lastTts' = TtsEvent("miss", key, NoUrl)
        /\ UNCHANGED <<ttsCache, ttsTimers, objectUrls, revokedUrls, pageLoaded>>

\* synthesizeSpeech answered with a blob: the URL is created, stored under
\* the key and given its expiry timer
SynthesisDone(c) ==
    /\ pageLoaded
    /\ ttsCalls' = ttsCalls \ {c}
    /\ objectUrls' = objectUrls \cup {c.id}
    /\ ttsCache' = [ttsCache EXCEPT ![c.key] = c.id]
    /\ ttsTimers' = ttsTimers \cup {[key |-> c.key, url |-> c.id]}
    /\ lastTts' = TtsEvent("cached", c.key, c.id)
    /\ UNCHANGED <<revokedUrls, nextTts, pageLoaded>>

\* synthesizeSpeech answered with an error: cachePronunciation throws
SynthesisFailed(c) ==
    /\ pageLoaded
    /\ ttsCalls' = ttsCalls \ {c}
    /\ lastTts' = TtsEvent("failed", c.key, NoUrl)
    /\ UNCHANGED <<ttsCache, ttsTimers, objectUrls, revokedUrls, nextTts, pageLoaded>>

\* URL.revokeObjectURL for a set of URLs
Revoke(urls) ==
    /\ objectUrls' = objectUrls \ urls
    /\ revokedUrls' = revokedUrls \cup urls

\* the setTimeout callback of cachePronunciation, 5 minutes after the set
ExpiryFires(t) ==
    /\ pageLoaded
    /\ ttsTimers' = ttsTimers \ {t}
    /\ IF ttsCache[t.key] # NoUrl
       THEN /\ Revoke({t.url})
            /\ ttsCache' = [ttsCache EXCEPT ![t.key] = NoUrl]
       ELSE UNCHANGED <<objectUrls, revokedUrls, ttsCache>>
    /\ lastTts' = TtsEvent("expired", t.key, t.url)
    /\ UNCHANGED <<ttsCalls, nextTts, pageLoaded>>

CachedUrls == {ttsCache[k] : k \in TtsKeys} \ {NoUrl}

\* ttsService.clearCache()
clearCache ==
    /\ pageLoaded
    /\ Revoke(CachedUrls)
    /\ ttsCache' = [k \in TtsKeys |-> NoUrl]
    /\ lastTts' = TtsEvent("cleared", UNDEFINED, NoUrl)
    /\ UNCHANGED <<ttsCalls, ttsTimers, nextTts, pageLoaded>>

\* the beforeunload listener, after which the page and its timers are gone
BeforeUnload ==
    /\ pageLoaded
    /\ Revoke(CachedUrls)
    /\ ttsCache' = [k \in TtsKeys |-> NoUrl]
    /\ pageLoaded' = FALSE
    /\ ttsTimers' = {}
    /\ ttsCalls' = {}
    /\ lastTts' = TtsEvent("unload", UNDEFINED, NoUrl)
    /\ UNCHANGED nextTts

ttsRest == <<pollerVars, recVars, mimeVars, uploadVars, chatVars, settingsVars, playVars, analyzeVars, analyzerVars, captureVars, containerVars>>

NextTts ==
    \/ \E t \in TtsTexts : \E l \in TtsLanguages :
            cachePronunciation(t, l) /\ UNCHANGED ttsRest
    \/ \E c \in ttsCalls : SynthesisDone(c) /\ UNCHANGED ttsRest
    \/ \E c \in ttsCalls : SynthesisFailed(c) /\ UNCHANGED ttsRest
    \/ \E t \in ttsTimers : ExpiryFires(t) /\ UNCHANGED ttsRest
    \/ clearCache /\ UNCHANGED ttsRest
    \/ BeforeUnload /\ UNCHANGED ttsRest

SpecTts == Init /\ [][NextTts]_vars

\* the server answers every synthesis request and every timer that is set
\* fires while the page is loaded
TtsFairness ==
    /\ WF_vars(\E c \in ttsCalls :
                  (SynthesisDone(c) \/ SynthesisFailed(c)) /\ UNCHANGED ttsRest)
    /\ WF_vars(\E t \in ttsTimers : ExpiryFires(t) /\ UNCHANGED ttsRest)

InitTtsLive == Init

NextTtsLive == NextTts

SpecTtsLive == InitTtsLive /\ [][NextTtsLive]_vars /\ TtsFairness

\* --------------------------------------------------------- chatbotService
MaxSessions == 3
MaxQueries == 2

\* ids a server may put in data.session_id
ServerSessionIds == {101}

\* the module variable, the storage item and the next id to generate;
\* `session_${Date.now()}_${Math.random()...}` is taken never to repeat
SessionNow == [mem |-> currentSessionId, store |-> storedSessionId, next |-> nextSession]

\* getOrCreateSessionId()
getOrCreateSessionId(s) ==
    IF s.mem = NoSession
    THEN [mem |-> s.next, store |-> s.next, next |-> s.next + 1]
    ELSE s

\* setSessionId(sessionId)
setSessionId(s, sessionId) == [s EXCEPT !.mem = sessionId, !.store = sessionId]

\* a clearSessionId that leaves the module variable as it is
KeptMemory(id) == id

\* currentSessionId = null
ClearedMemory(id) == NoSession

\* clearSessionId()
clearSessionId(s) == [s EXCEPT !.mem = ClearedMemory(s.mem), !.store = NoSession]

Install(s) ==
    /\ currentSessionId' = s.mem
    /\ storedSessionId' = s.store
    /\ nextSession' = s.next

\* an id can still be generated when one is needed
CanCreate(s) == s.mem # NoSession \/ s.next <= MaxSessions

\* useChatbot's useState initialiser / ChatBotProvider's mount effect
ChatMount ==
    /\ ~chatMounted
    /\ CanCreate(SessionNow)
    /\ LET s == getOrCreateSessionId(SessionNow)
       IN  /\ Install(s)
           /\ hookSessionId' = s.mem
    /\ chatMounted' = TRUE
    /\ chatLast' = ChatEvent("getOrCreateSessionId", currentSessionId, hookSessionId)
    /\ UNCHANGED <<chatQueries, nextQuery>>

\* getOrCreateSessionId() called on its own
CallGetOrCreate ==
    /\ CanCreate(SessionNow)
    /\ Install(getOrCreateSessionId(SessionNow))
    /\ chatLast' = ChatEvent("getOrCreateSessionId", currentSessionId, hookSessionId)
    /\ UNCHANGED <<hookSessionId, chatMounted, chatQueries, nextQuery>>

\* clearSessionId() called on its own
CallClearSessionId ==
    /\ Install(clearSessionId(SessionNow))
    /\ chatLast' = ChatEvent("clearSessionId", currentSessionId, hookSessionId)
    /\ UNCHANGED <<hookSessionId, chatMounted, chatQueries, nextQuery>>

\* ask(query) up to the fetch: queryChatbot(query, n, sessionId) uses
\* sessionId || getOrCreateSessionId()
ask ==
    /\ chatMounted
    /\ nextQuery <= MaxQueries
    /\ CanCreate(SessionNow)
    /\ LET s == IF hookSessionId # NoSession THEN SessionNow
                ELSE getOrCreateSessionId(SessionNow)
           session == IF hookSessionId # NoSession THEN hookSessionId ELSE s.mem
       IN  /\ Install(s)
           /\ chatQueries' = chatQueries \cup {[id |-> nextQuery, session |-> session]}
    /\ nextQuery' = nextQuery + 1
    /\ chatLast' = ChatEvent("ask", currentSessionId, hookSessionId)
    /\ UNCHANGED <<hookSessionId, chatMounted>>

\* the fetch answered: data.session_id, when present, goes to setSessionId
QueryAnswered(q, sid) ==
    /\ chatQueries' = chatQueries \ {q}
    /\ IF sid # NoSession
       THEN /\ Install(setSessionId(SessionNow, sid))
            /\ chatLast' = ChatEvent("setSessionId", currentSessionId, hookSessionId)
       ELSE /\ UNCHANGED <<currentSessionId, storedSessionId, nextSession>>
            /\ chatLast' = ChatEvent("answered", currentSessionId, hookSessionId)
    /\ UNCHANGED <<hookSessionId, chatMounted, nextQuery>>

\* the fetch failed or the server answered with an error
QueryFailed(q) ==
    /\ chatQueries' = chatQueries \ {q}
    /\ chatLast' = ChatEvent("failed", currentSessionId, hookSessionId)
    /\ UNCHANGED <<currentSessionId, storedSessionId, nextSession,
                   hookSessionId, chatMounted, nextQuery>>

\* clearHistory(): clearSessionId(), getOrCreateSessionId(), setSessionId(newId)
clearHistory ==
    /\ chatMounted
    /\ nextSession <= MaxSessions
    /\ LET s == getOrCreateSessionId(clearSessionId(SessionNow))
       IN  /\ Install(s)
           /\ hookSessionId' = s.mem
    /\ chatLast' = ChatEvent("clearHistory", currentSessionId, hookSessionId)
    /\ UNCHANGED <<chatMounted, chatQueries, nextQuery>>

chatRest == <<pollerVars, recVars, mimeVars, uploadVars, ttsVars, settingsVars, playVars, analyzeVars, analyzerVars, captureVars, containerVars>>

InitChat ==
    /\ PollerInit
    /\ RecInit
    /\ MimeIdle
    /\ UploadIdle
    /\ TtsInit
    /\ SettingsConstructed(NoItem)
    /\ PlayIdle
    /\ AnalyzeInit
    /\ AnalyzerInit
    /\ CaptureInit
    /\ ContainerInit
    /\ \E stored \in {NoSession, OldSessionId} : ChatLoaded(stored)

NextChat ==
    \/ ChatMount /\ UNCHANGED chatRest
    \/ CallGetOrCreate /\ UNCHANGED chatRest
    \/ CallClearSessionId /\ UNCHANGED chatRest
    \/ ask /\ UNCHANGED chatRest
    \/ \E q \in chatQueries : \E sid \in ServerSessionIds \cup {NoSession, q.session} :
            QueryAnswered(q, sid) /\ UNCHANGED chatRest
    \/ \E q \in chatQueries : QueryFailed(q) /\ UNCHANGED chatRest
    \/ clearHistory /\ UNCHANGED chatRest

SpecChat == InitChat /\ [][NextChat]_vars

\* ------------------------------------------------------- SettingsProvider
MaxSettingOps == 3

\* the JavaScript type of each setting
BooleanKeys == {"autoSave", "showNotifications", "compactMode"}
NumberKeys == {"audioVolume"}

\* the slider's values, in tenths
Volumes == 0..10

\* JSON.stringify of one value
ToJson(k, v) ==
    IF k \in BooleanKeys THEN (IF v THEN "true" ELSE "false")
    ELSE IF k \in NumberKeys THEN ToString(v)
    ELSE "\"" \o v \o "\""

\* JSON.parse of one value
FromJson(k, t) ==
    IF k \in BooleanKeys THEN t = "true"
    ELSE IF k \in NumberKeys THEN CHOOSE n \in Volumes : ToString(n) = t
    ELSE SubSeq(t, 2, Len(t) - 1)

\* JSON.stringify(settings)
Stringify(obj) == ObjectItem([k \in DOMAIN obj |-> ToJson(k, obj[k])])

\* { ...prev, ...JSON.parse(savedSettings) }
MergeSaved(prev, item) ==
    [k \in SettingKeys |->
        IF k \in DOMAIN item.pairs THEN FromJson(k, item.pairs[k]) ELSE prev[k]]

\* the state after the load effect: absent or unparsable text changes nothing
Loaded(prev, item) == IF item.kind = "object" THEN MergeSaved(prev, item) ELSE prev

\* a save effect that runs on the first render, while isLoading is true
SaveOnMount(loaded, initial) == Stringify(initial)

\* the item after the save effect of the render that follows the load
SaveAfterLoad(loaded, initial) == Stringify(loaded)

\* mount: the load effect, the save effect skipped while isLoading, then
\* the render with isLoading false and its save effect
SettingsMount ==
    /\ ~settingsMounted
    /\ settingsMounted' = TRUE
    /\ settings' = Loaded(settings, localSettings)
    /\ settingsPristine' = (localSettings.kind # "object")
    /\ settingsLoading' = FALSE
    /\ localSettings' = SaveAfterLoad(settings', settings)
    /\ settingsLast' = SettingsEvent("mount", localSettings, settingsLast.key, settingsLast.value)
    /\ UNCHANGED settingOps

\* updateSetting(key, value), its render and save effect
updateSetting(k, v) ==
    /\ settingsMounted
    /\ settingOps < MaxSettingOps
    /\ settingOps' = settingOps + 1
    /\ settings' = [settings EXCEPT ![k] = v]
    /\ settingsPristine' = FALSE
    /\ localSettings' = Stringify(settings')
    /\ settingsLast' = SettingsEvent("updateSetting", localSettings, k, v)
    /\ UNCHANGED <<settingsLoading, settingsMounted>>

\* resetSettings(): when the state already is the DEFAULT_SETTINGS object
\* nothing renders and the item stays removed, otherwise the save effect
\* of the render writes the defaults
resetSettings ==
    /\ settingsMounted
    /\ settingOps < MaxSettingOps
    /\ settingOps' = settingOps + 1
    /\ settings' = DEFAULT_SETTINGS
    /\ settingsPristine' = TRUE
    /\ localSettings' = IF settingsPristine THEN NoItem ELSE Stringify(DEFAULT_SETTINGS)
    /\ settingsLast' = SettingsEvent("resetSettings", localSettings, NoKey, NoKey)
    /\ UNCHANGED <<settingsLoading, settingsMounted>>

\* the page is loaded again: the provider is constructed anew, localStorage stays
SettingsReload ==
    /\ settingsMounted
    /\ settings' = DEFAULT_SETTINGS
    /\ settingsLoading' = TRUE
    /\ settingsPristine' = TRUE
    /\ settingsMounted' = FALSE
    /\ settingsLast' = SettingsEvent("reload", localSettings, settingsLast.key, settingsLast.value)
    /\ UNCHANGED <<localSettings, settingOps>>

\* what the settings page passes to updateSetting: the slider's number,
\* the negation of a boolean setting
SettingInputs ==
    {<<"audioVolume", v>> : v \in {0, 3, 10}}
        \cup {<<k, ~settings[k]>> : k \in BooleanKeys}

\* items an earlier visit may have left
SavedItems ==
    {NoItem, CorruptItem,
     ObjectItem([k \in {"language"} |-> "\"es\""]),
     ObjectItem([k \in {"audioVolume", "autoSave"} |->
                    IF k = "audioVolume" THEN "3" ELSE "false"])}

settingsRest == <<pollerVars, recVars, mimeVars, uploadVars, ttsVars, chatVars, playVars, analyzeVars, analyzerVars, captureVars, containerVars>>

InitSettings ==
    /\ PollerInit
    /\ RecInit
    /\ MimeIdle
    /\ UploadIdle
    /\ TtsInit
    /\ ChatLoaded(NoSession)
    /\ PlayIdle
    /\ AnalyzeInit
    /\ AnalyzerInit
    /\ CaptureInit
    /\ ContainerInit
    /\ \E item \in SavedItems : SettingsConstructed(item)

NextSettings ==
    \/ SettingsMount /\ UNCHANGED settingsRest
    \/ \E in \in SettingInputs : updateSetting(in[1], in[2]) /\ UNCHANGED settingsRest
    \/ resetSettings /\ UNCHANGED settingsRest
    \/ SettingsReload /\ UNCHANGED settingsRest

SpecSettings == InitSettings /\ [][NextSettings]_vars

\* ------------------------------------------- App: pronunciation section
MaxAnalyses == 2

\* String.prototype.trim
RECURSIVE Trim(_)
Trim(t) ==
    IF Len(t) = 0 THEN t
    ELSE IF SubSeq(t, 1, 1) = " " THEN Trim(SubSeq(t, 2, Len(t)))
    ELSE IF SubSeq(t, Len(t), Len(t)) = " " THEN Trim(SubSeq(t, 1, Len(t) - 1))
    ELSE t

\* the disabled attribute of the Analyze Pronunciation button
AnalyzeDisabled ==
    \/ ~Truthy(Trim(referenceText))
    \/ appRecordedBlob = NoBlob
    \/ isAnalyzing
    \/ appIsRecording
    \/ appIsProcessing

\* the button is rendered on the recorder tab only
AnalyzeEnabled == activeTab = "recorder" /\ ~AnalyzeDisabled

ReferenceTexts == {EMPTY, "  ", "guten tag"}

\* the textarea's onChange; the textarea is disabled while analysing or processing
setReferenceText(t) ==
    /\ activeTab = "recorder"
    /\ ~(isAnalyzing \/ appIsProcessing)
    /\ referenceText' = t
    /\ UNCHANGED <<appRecordedBlob, isAnalyzing, appIsRecording, appIsProcessing,
                   activeTab, analysisJobs, nextAnalysis, pronunciationStatus, appTranscript>>

\* App.startRecording once the recorder runs
AppRecordingStarts ==
    /\ activeTab = "recorder"
    /\ ~appIsRecording
    /\ appIsRecording' = TRUE
    /\ UNCHANGED <<referenceText, appRecordedBlob, isAnalyzing, appIsProcessing,
                   activeTab, analysisJobs, nextAnalysis, pronunciationStatus, appTranscript>>

\* App.stopRecording and the recorder's onstop, which installs the blob
AppRecordingStops ==
    /\ appIsRecording
    /\ appIsRecording' = FALSE
    /\ appRecordedBlob' = 1
    /\ UNCHANGED <<referenceText, isAnalyzing, appIsProcessing,
                   activeTab, analysisJobs, nextAnalysis, pronunciationStatus, appTranscript>>

\* uploadAndTranscribe with the recording: isProcessing until the job ends
AppTranscriptionStarts ==
    /\ ~appIsProcessing
    /\ appRecordedBlob # NoBlob
    /\ appIsProcessing' = TRUE
    /\ UNCHANGED <<referenceText, appRecordedBlob, isAnalyzing, appIsRecording,
                   activeTab, analysisJobs, nextAnalysis, pronunciationStatus, appTranscript>>

\* the transcription job completes with its transcript, or it fails, or
\* its upload or poll fails
AppTranscriptionEnds(completed) ==
    /\ appIsProcessing
    /\ appIsProcessing' = FALSE
    /\ appTranscript' = IF completed THEN "hallo" ELSE appTranscript
    /\ UNCHANGED <<referenceText, appRecordedBlob, isAnalyzing, appIsRecording,
                   activeTab, analysisJobs, nextAnalysis, pronunciationStatus>>

\* a click on the Analyze button: startPronunciationAnalysis up to its POST
clickAnalyze ==
    /\ AnalyzeEnabled
    /\ nextAnalysis <= MaxAnalyses
    /\ IF appRecordedBlob = NoBlob \/ ~Truthy(Trim(referenceText))
       THEN UNCHANGED <<isAnalyzing, analysisJobs, nextAnalysis>>
       ELSE /\ isAnalyzing' = TRUE
            /\ analysisJobs' = analysisJobs \cup {[id |-> nextAnalysis, phase |-> "submit"]}
            /\ nextAnalysis' = nextAnalysis + 1
    /\ UNCHANGED <<referenceText, appRecordedBlob, appIsRecording, appIsProcessing,
                   activeTab, pronunciationStatus, appTranscript>>

\* the POST answered: setPronunciationJobId and the first status request
AnalysisSubmitted(j) ==
    /\ j.phase = "submit"
    /\ analysisJobs' = (analysisJobs \ {j}) \cup {[j EXCEPT !.phase = "poll"]}
    /\ UNCHANGED <<referenceText, appRecordedBlob, isAnalyzing, appIsRecording,
                   appIsProcessing, activeTab, nextAnalysis, pronunciationStatus, appTranscript>>

\* the POST or a status request failed: the catch block
AnalysisRequestFails(j) ==
    /\ analysisJobs' = analysisJobs \ {j}
    /\ isAnalyzing' = FALSE
    /\ UNCHANGED <<referenceText, appRecordedBlob, appIsRecording,
                   appIsProcessing, activeTab, nextAnalysis, pronunciationStatus, appTranscript>>

AnalysisStatuses == {"queued", "processing", "completed", "failed"}

\* pollPronunciationStatus with a status response: completed and failed
\* end the job, processing and queued set the next timer
AnalysisPolled(j, st) ==
    /\ j.phase = "poll"
    /\ pronunciationStatus' = st
    /\ IF st \in {"completed", "failed"}
       THEN /\ isAnalyzing' = FALSE
            /\ analysisJobs' = analysisJobs \ {j}
       ELSE UNCHANGED <<isAnalyzing, analysisJobs>>
    /\ UNCHANGED <<referenceText, appRecordedBlob, appIsRecording,
                   appIsProcessing, activeTab, nextAnalysis, appTranscript>>

\* the disabled attribute of the Reset button of the active tab
ResetDisabled ==
    IF activeTab = "upload" THEN appIsProcessing
    ELSE appIsProcessing \/ isAnalyzing

\* resetState()
resetState ==
    /\ activeTab \in {"recorder", "upload"}
    /\ ~ResetDisabled
    /\ pronunciationStatus' = NULL
    /\ isAnalyzing' = FALSE
    /\ appIsRecording' = FALSE
    /\ appIsProcessing' = FALSE
    /\ IF activeTab = "upload"
       THEN UNCHANGED <<appRecordedBlob, referenceText>>
       ELSE /\ appRecordedBlob' = NoBlob
            /\ referenceText' = EMPTY
    /\ appTranscript' = EMPTY
    /\ UNCHANGED <<activeTab, analysisJobs, nextAnalysis>>

\* the navigation buttons
setActiveTab(t) ==
    /\ activeTab # t
    /\ activeTab' = t
    /\ UNCHANGED <<referenceText, appRecordedBlob, isAnalyzing, appIsRecording,
                   appIsProcessing, analysisJobs, nextAnalysis, pronunciationStatus, appTranscript>>

analyzeRest == <<pollerVars, recVars, mimeVars, uploadVars, ttsVars, chatVars,
                 settingsVars, playVars, analyzerVars, captureVars, containerVars>>

NextAnalyze ==
    \/ \E t \in ReferenceTexts : setReferenceText(t) /\ UNCHANGED analyzeRest
    \/ AppRecordingStarts /\ UNCHANGED analyzeRest
    \/ AppRecordingStops /\ UNCHANGED analyzeRest
    \/ AppTranscriptionStarts /\ UNCHANGED analyzeRest
    \/ \E completed \in BOOLEAN : AppTranscriptionEnds(completed) /\ UNCHANGED analyzeRest
    \/ clickAnalyze /\ UNCHANGED analyzeRest
    \/ \E j \in analysisJobs : AnalysisSubmitted(j) /\ UNCHANGED analyzeRest
    \/ \E j \in analysisJobs : AnalysisRequestFails(j) /\ UNCHANGED analyzeRest
    \/ \E j \in analysisJobs : \E st \in AnalysisStatuses :
            AnalysisPolled(j, st) /\ UNCHANGED analyzeRest
    \/ resetState /\ UNCHANGED analyzeRest
    \/ \E t \in {"recorder", "upload"} : setActiveTab(t) /\ UNCHANGED analyzeRest

SpecAnalyze == Init /\ [][NextAnalyze]_vars

\* ------------------------------------------------- PronunciationAnalyzer
MaxAnalyzerJobs == 3

\* the analysis field of a status body: absent, or the analysis record
ServerAnalyses == {UNDEFINED, "scores"}

\* bodies of GET /pronunciation-status/{job_id}
AnalyzerBodies ==
    [status : {"queued", "processing", "completed", "failed"},
     analysis : ServerAnalyses]

\* the textarea, disabled while analyzing
paSetReferenceText(t) ==
    /\ ~paIsAnalyzing
    /\ paReferenceText' = t
    /\ paLast' = AnalyzerEvent("text", NULL, UNDEFINED, FALSE)
    /\ UNCHANGED <<pronunciationJobId, paStatus, paIsAnalyzing, paSubmits,
                   paRequests, paTimers, paNext>>

\* a click on the Analyze button of a component whose props hold a recorded
\* blob and say neither recording nor processing: startPronunciationAnalysis
\* up to its await
paStartPronunciationAnalysis ==
    /\ Trim(paReferenceText) # EMPTY
    /\ ~paIsAnalyzing
    /\ paNext <= MaxAnalyzerJobs
    /\ paIsAnalyzing' = TRUE
    /\ paSubmits' = paSubmits \cup {paNext}
    /\ paNext' = paNext + 1
    /\ paLast' = AnalyzerEvent("start", NULL, UNDEFINED, FALSE)
    /\ UNCHANGED <<paReferenceText, pronunciationJobId, paStatus, paRequests, paTimers>>

\* the job id arrives: it is stored and the first status request goes out
paSubmitted(c) ==
    /\ c \in paSubmits
    /\ paSubmits' = paSubmits \ {c}
    /\ pronunciationJobId' = JobName(c)
    /\ paRequests' = paRequests \cup {JobName(c)}
    /\ paLast' = AnalyzerEvent("submitted", NULL, UNDEFINED, FALSE)
    /\ UNCHANGED <<paReferenceText, paStatus, paIsAnalyzing, paTimers, paNext>>

\* the catch block of startPronunciationAnalysis
paSubmitFails(c) ==
    /\ c \in paSubmits
    /\ paSubmits' = paSubmits \ {c}
    /\ paIsAnalyzing' = FALSE
    /\ paLast' = AnalyzerEvent("submitFailed", NULL, UNDEFINED, FALSE)
    /\ UNCHANGED <<paReferenceText, pronunciationJobId, paStatus, paRequests,
                   paTimers, paNext>>

\* if (jobStatus.analysis) onAnalysisComplete(jobStatus.analysis)
SignalsCompletion(b) == Truthy(b.analysis)

\* pollPronunciationStatus after its await, with a body
paPollResponse(j, b) ==
    /\ j \in paRequests
    /\ b \in AnalyzerBodies
    /\ paRequests' = paRequests \ {j}
    /\ paStatus' = b.status
    /\ paIsAnalyzing' = IF b.status \in {"completed", "failed"} THEN FALSE ELSE paIsAnalyzing
    /\ paTimers' = IF b.status \in {"processing", "queued"} THEN paTimers \cup {j} ELSE paTimers
    /\ paLast' = AnalyzerEvent("pollResponse", b.status, b.analysis, SignalsCompletion(b))
    /\ UNCHANGED <<paReferenceText, pronunciationJobId, paSubmits, paNext>>

\* pollPronunciationStatus's catch block
paPollError(j) ==
    /\ j \in paRequests
    /\ paRequests' = paRequests \ {j}
    /\ paIsAnalyzing' = FALSE
    /\ paLast' = AnalyzerEvent("pollError", NULL, UNDEFINED, FALSE)
    /\ UNCHANGED <<paReferenceText, pronunciationJobId, paStatus, paSubmits,
                   paTimers, paNext>>

\* the setTimeout callback: pollPronunciationStatus(currentJobId)
paTimerFire(j) ==
    /\ j \in paTimers
    /\ paTimers' = paTimers \ {j}
    /\ paRequests' = paRequests \cup {j}
    /\ paLast' = AnalyzerEvent("timerFire", NULL, UNDEFINED, FALSE)
    /\ UNCHANGED <<paReferenceText, pronunciationJobId, paStatus, paIsAnalyzing,
                   paSubmits, paNext>>

\* the Reset Analysis button, disabled while analyzing
resetAnalysis ==
    /\ ~paIsAnalyzing
    /\ pronunciationJobId' = NULL
    /\ paStatus' = NULL
    /\ paIsAnalyzing' = FALSE
    /\ paReferenceText' = EMPTY
    /\ paLast' = AnalyzerEvent("reset", NULL, UNDEFINED, FALSE)
    /\ UNCHANGED <<paSubmits, paRequests, paTimers, paNext>>

analyzerRest == <<pollerVars, recVars, mimeVars, uploadVars, ttsVars, chatVars,
                  settingsVars, playVars, analyzeVars, captureVars, containerVars>>

NextAnalyzer ==
    \/ \E t \in ReferenceTexts : paSetReferenceText(t) /\ UNCHANGED analyzerRest
    \/ paStartPronunciationAnalysis /\ UNCHANGED analyzerRest
    \/ \E c \in paSubmits : paSubmitted(c) /\ UNCHANGED analyzerRest
    \/ \E c \in paSubmits : paSubmitFails(c) /\ UNCHANGED analyzerRest
    \/ \E j \in paRequests : \E b \in AnalyzerBodies :
            paPollResponse(j, b) /\ UNCHANGED analyzerRest
    \/ \E j \in paRequests : paPollError(j) /\ UNCHANGED analyzerRest
    \/ \E j \in paTimers : paTimerFire(j) /\ UNCHANGED analyzerRest
    \/ resetAnalysis /\ UNCHANGED analyzerRest

SpecAnalyzer == Init /\ [][NextAnalyzer]_vars

\* ------------------------------------------------------- recorded chunks
MaxCaptures == 2
MaxChunks == 2

\* the browsers considered: what MediaRecorder.isTypeSupported accepts and
\* the encoding a recorder constructed without options uses
CaptureRuntimes ==
    { [supported |-> {"audio/webm;codecs=opus", "audio/webm"},
       default |-> "audio/webm;codecs=opus"],
      [supported |-> {"audio/mp4"}, default |-> "audio/mp4"] }

CaptureSites == {"App", "RecordingPage", "audioService"}

\* the mimeType the site hands to new MediaRecorder: App probes its list and
\* falls back to audio/webm, RecordingPage passes no options, audioService
\* hands over what createMediaRecorder negotiated
RequestedMimeType(site, rt, cfg) ==
    IF site = "App" THEN JsOr(AppProbe(rt.supported), "audio/webm")
    ELSE IF site = "RecordingPage" THEN UNDEFINED
    ELSE createMediaRecorder(cfg, rt.supported, TRUE).mimeType

\* new MediaRecorder(stream, {mimeType}) throws for a type the runtime does
\* not support; audioService.createMediaRecorder throws before it without
\* AUDIO_CONFIG.supportedMimeTypes
Constructs(site, rt, cfg) ==
    IF site = "RecordingPage" THEN TRUE
    ELSE IF site = "audioService" /\ createMediaRecorder(cfg, rt.supported, TRUE).outcome # "recorder"
    THEN FALSE
    ELSE RequestedMimeType(site, rt, cfg) \in rt.supported

\* startRecording once the stream is there: the recorder, its handlers and a
\* fresh chunks array
CaptureStart(site, rt, cfg) ==
    /\ capNext <= MaxCaptures
    /\ Constructs(site, rt, cfg)
    /\ LET requested == RequestedMimeType(site, rt, cfg)
       IN  capSessions' = capSessions \cup
                {[id |-> capNext, site |-> site,
                  encoding |-> IF requested = UNDEFINED THEN rt.default ELSE requested,
                  state |-> "recording", chunks |-> <<>>, emitted |-> <<>>]}
    /\ capRecorder' = capNext
    /\ capNext' = capNext + 1
    /\ UNCHANGED <<capBlobs, capClock>>

\* a handler that puts the newest chunk first
StoreChunkFirst(site, chunks, c) ==
    IF site # "RecordingPage" /\ Len(c) = 0 THEN chunks ELSE <<c>> \o chunks

\* ondataavailable: App and audioService skip a chunk of size 0
StoreChunk(site, chunks, c) ==
    IF site # "RecordingPage" /\ Len(c) = 0 THEN chunks ELSE Append(chunks, c)

\* the session after its recorder emitted chunk c
Emit(sess, c) ==
    [sess EXCEPT !.chunks = StoreChunk(sess.site, sess.chunks, c),
                 !.emitted = Append(sess.emitted, c)]

\* the data of a chunk: empty, or bytes no other chunk has
ChunkData(empty) == IF empty THEN <<>> ELSE <<capClock>>

\* the timeslice elapses: the recorder emits a chunk
DataAvailable(sess, empty) ==
    /\ sess \in capSessions
    /\ sess.state = "recording"
    /\ capClock <= MaxChunks
    /\ capSessions' = (capSessions \ {sess}) \cup {Emit(sess, ChunkData(empty))}
    /\ capClock' = capClock + 1
    /\ UNCHANGED <<capBlobs, capRecorder, capNext>>

\* stopRecording: stops the recorder the component holds and forgets it
CaptureStop(sess) ==
    /\ sess \in capSessions
    /\ sess.state = "recording"
    /\ capRecorder = sess.id
    /\ capSessions' = (capSessions \ {sess}) \cup {[sess EXCEPT !.state = "stopping"]}
    /\ capRecorder' = NoRef
    /\ UNCHANGED <<capBlobs, capNext, capClock>>

\* new Blob(chunks): the chunks' data in array order
RECURSIVE Concat(_)
Concat(chunks) == IF chunks = <<>> THEN <<>> ELSE Head(chunks) \o Concat(Tail(chunks))

\* the type option of new Blob: App's mimeType variable, audioService's
\* recorder.mimeType, RecordingPage's literal
BlobType(sess) == IF sess.site = "RecordingPage" THEN "audio/wav" ELSE sess.encoding

\* the stopped recorder emits its last chunk and then the stop event: onstop
\* builds the blob
RecorderStopped(sess, empty) ==
    /\ sess \in capSessions
    /\ sess.state = "stopping"
    /\ capClock <= MaxChunks + 1
    /\ LET done == Emit(sess, ChunkData(empty))
       IN  /\ capSessions' = (capSessions \ {sess}) \cup {[done EXCEPT !.state = "inactive"]}
           /\ capBlobs' = capBlobs \cup
                {[id |-> sess.id, data |-> Concat(done.chunks), type |-> BlobType(sess)]}
    /\ capClock' = capClock + 1
    /\ UNCHANGED <<capRecorder, capNext>>

captureRest == <<pollerVars, recVars, mimeVars, uploadVars, ttsVars, chatVars,
                 settingsVars, playVars, analyzeVars, analyzerVars, containerVars>>

NextCapture ==
    \/ \E site \in CaptureSites : \E rt \in CaptureRuntimes : \E cfg \in AudioConfigs :
            CaptureStart(site, rt, cfg) /\ UNCHANGED captureRest
    \/ \E sess \in capSessions : \E empty \in BOOLEAN :
            DataAvailable(sess, empty) /\ UNCHANGED captureRest
    \/ \E sess \in capSessions : CaptureStop(sess) /\ UNCHANGED captureRest
    \/ \E sess \in capSessions : \E empty \in BOOLEAN :
            RecorderStopped(sess, empty) /\ UNCHANGED captureRest

SpecCapture == Init /\ [][NextCapture]_vars

\* ----------------------------------------------------------- ChatContainer
MaxSends == 3

\* what the user types into ChatInput
Questions == {"when dative", "when genitive"}

\* one entry of the messages list
ChatMessage(role, text) == [role |-> role, text |-> text]

\* data.answer of a chatbot response: absent, or a text
ChatAnswers == {UNDEFINED, "use the dative", "use the genitive"}

\* useChatbot as ChatContainer imports it: the hook with an answer state, or
\* the hook that derives answer from its message history; the mount effect
\* puts the welcome message (its text abbreviated)
ContainerMount(v) ==
    /\ ccVariant = "none"
    /\ v \in {"answer", "messages"}
    /\ ccVariant' = v
    /\ ccMessages' = <<ChatMessage("assistant", "Hi")>>
    /\ UNCHANGED <<ccWaiting, ccLoading, ccAnswer, ccError, ccAsks, ccNext>>

\* ChatInput's Send with a non-blank text, enabled while neither loading nor
\* waiting: handleSend up to the fetch inside ask(); the answer hook clears
\* its answer, the messages hook keeps its last assistant message
handleSend(text) ==
    /\ ccVariant # "none"
    /\ text \in Questions
    /\ ~(ccLoading \/ ccWaiting)
    /\ ccNext <= MaxSends
    /\ ccWaiting' = TRUE
    /\ ccLoading' = TRUE
    /\ ccError' = NULL
    /\ ccAnswer' = IF ccVariant = "answer" THEN EMPTY ELSE ccAnswer
    /\ ccAsks' = ccAsks \cup {ccNext}
    /\ ccNext' = ccNext + 1
    /\ ccMessages' = Append(ccMessages, ChatMessage("user", text))
    /\ UNCHANGED ccVariant

\* the effect keyed on [answer] appends and stops waiting: it runs when the
\* answer of the new render differs, and acts when waiting with an answer
AnswerEffect(before, after, waiting) == after # before /\ waiting /\ after # EMPTY

\* queryChatbot resolved: the hook stores data.answer || 'No answer', clears
\* loading, and the container's effect sees the new render
AskAnswered(a, ans) ==
    /\ a \in ccAsks
    /\ ans \in ChatAnswers
    /\ ccAsks' = ccAsks \ {a}
    /\ ccLoading' = FALSE
    /\ ccAnswer' = JsOr(ans, "No answer")
    /\ IF AnswerEffect(ccAnswer, ccAnswer', ccWaiting)
       THEN /\ ccWaiting' = FALSE
            /\ ccMessages' = Append(ccMessages, ChatMessage("assistant", ccAnswer'))
       ELSE UNCHANGED <<ccWaiting, ccMessages>>
    /\ UNCHANGED <<ccVariant, ccError, ccNext>>

\* queryChatbot rejected: ask() catches, sets error and clears loading; it
\* does not rethrow, so handleSend's catch block is not entered
AskFailed(a) ==
    /\ a \in ccAsks
    /\ ccAsks' = ccAsks \ {a}
    /\ ccLoading' = FALSE
    /\ ccError' = "Server error"
    /\ UNCHANGED <<ccVariant, ccWaiting, ccAnswer, ccNext, ccMessages>>

containerRest == <<pollerVars, recVars, mimeVars, uploadVars, ttsVars, chatVars,
                   settingsVars, playVars, analyzeVars, analyzerVars, captureVars>>

NextContainer ==
    \/ \E v \in {"answer", "messages"} : ContainerMount(v) /\ UNCHANGED containerRest
    \/ \E text \in Questions : handleSend(text) /\ UNCHANGED containerRest
    \/ \E a \in ccAsks : \E ans \in ChatAnswers : AskAnswered(a, ans) /\ UNCHANGED containerRest
    \/ \E a \in ccAsks : AskFailed(a) /\ UNCHANGED containerRest

\* the fetch of every ask() settles
ContainerFairness ==
    WF_vars(\E a \in ccAsks :
                ((\E ans \in ChatAnswers : AskAnswered(a, ans)) \/ AskFailed(a))
                /\ UNCHANGED containerRest)

SpecContainer == Init /\ [][NextContainer]_vars /\ ContainerFairness

TypeOK ==
    /\ isProcessing \in BOOLEAN
    /\ mounted \in BOOLEAN
    /\ progress \in {0, 40}
    /\ pollingRef \in 0..(MaxTimers + 1)
    /\ \A t \in timers : t.id \in 1..(MaxTimers + 1)


\* ------------------------------------------------------------------ claims
TerminalStatuses == {"completed", "failed"}

ActiveStatuses == {"queued", "processing"}

PollKinds == {"pollResponse", "pollError", "pollNullBody"}

TimersOf(j) == {t \in timers : t.job = j}

RequestsOf(j) == {r \in requests : r.job = j}

\* C1: once status is completed or failed, no step takes it to queued or
\* processing (a new submit first resets it to null).
C1_ForwardOnly ==
    [][(status \in TerminalStatuses) => (status' \notin ActiveStatuses)]_vars

\* C2: after a poll response with status "failed" is handled, no poll timer
\* is pending for the job, isProcessing is false and error is the response's
\* error string.
C2_FailedStopsAndReports ==
    (mounted /\ last.kind = "pollResponse" /\ last.status = "failed")
        => /\ TimersOf(last.job) = {}
           /\ ~isProcessing
           /\ Truthy(last.err) => error = last.err

\* C3: a response to a status request that was in flight when cancel or
\* reset ran changes none of status, progress, transcript, error,
\* isProcessing and schedules no poll.
C3_LateResponseDiscarded ==
    [][(last'.kind \in PollKinds /\ last'.stale)
        => (UNCHANGED <<status, progress, transcript, error, isProcessing, timers>>)]_vars

JobFailureMessages ==
    (ServerErrors \ {UNDEFINED}) \cup {ERROR_MESSAGES("TRANSCRIPTION_FAILED")}

MalformedOrFailedRequest ==
    \/ last.kind \in {"pollError", "pollNullBody"}
    \/ last.kind = "pollResponse" /\ last.status = UNDEFINED

\* C6: after a status request that failed in transport or returned a
\* malformed body, no poll is pending or in flight for the job, isProcessing
\* is false, and error is set to a message that is not one of the messages
\* of a server-reported job failure.
C6_StatusCheckFailure ==
    (mounted /\ MalformedOrFailedRequest)
        => /\ TimersOf(last.job) = {}
           /\ RequestsOf(last.job) = {}
           /\ ~isProcessing
           /\ Truthy(error)
           /\ error \notin JobFailureMessages

\* C7: after a poll response with status queued or processing (no cancel,
\* reset or unmount), the next poll of the job is scheduled.
C7_KeepsPolling ==
    (mounted /\ last.kind = "pollResponse" /\ ~last.stale
        /\ last.status \in ActiveStatuses)
        => TimersOf(last.job) # {}

\* C8: for every job, at most one status request is outstanding, at most one
\* poll timer is pending, and never both at once.
C8_OnePollAtATime ==
    \A n \in 1..(MaxSubmits + 1) :
        Cardinality(RequestsOf(JobName(n))) + Cardinality(TimersOf(JobName(n))) <= 1

C8_Witness ==
    /\ last.kind = "timerFire"
    /\ RequestsOf(last.job) # {}
    /\ nextTimer > 1

\* C9: after cancel the hook is idle (status null, isProcessing false,
\* progress 0) and every status request of a cancelled job was issued
\* before the cancel.
C9_CancelStopsPolling ==
    /\ (last.kind = "cancel") => (status = NULL /\ ~isProcessing /\ progress = 0)
    /\ \A r \in requests : r.job \in cancelled => r.stale

\* C10: after a poll response with status completed, no poll is pending or
\* in flight for the job, isProcessing is false, and transcript is the
\* transcript the response carried.
C10_CompletedExposesResult ==
    (mounted /\ last.kind = "pollResponse" /\ last.status = "completed")
        => /\ TimersOf(last.job) = {}
           /\ RequestsOf(last.job) = {}
           /\ ~isProcessing
           /\ last.transcript # UNDEFINED => transcript = last.transcript

\* a job of this hook is being submitted, or was accepted and has not ended
JobInProgress ==
    \/ submits # {}
    \/ isProcessing /\ Truthy(jobId) /\ status \notin TerminalStatuses

\* C11: startTranscription is accepted only when the poller is idle or in a
\* terminal state: no call made while a job is submitting, queued or
\* processing starts a second job.
C11_StartOnlyWhenIdle ==
    [][(last'.kind = "start" /\ nextCall' = nextCall + 1) => (~JobInProgress)]_vars

\* C12: after any failure of a job (submit error, poll transport error, poll
\* response with status failed) isProcessing is false, so the controls
\* disabled while processing are enabled again.
C12_FailureEndsProcessing ==
    (mounted /\ (\/ last.kind \in {"submitError", "pollError"}
                 \/ last.kind = "pollResponse" /\ last.status = "failed"))
        => ~isProcessing

\* ------------------------------------------------------- recording claims
\* recorders whose stop event is still to be handled
Finalizing == {c \in RecIds : recorders[c] = "stopping"}

\* C13: once a recording's stop has been requested and its stop event
\* handled, the tracks of its stream are stopped and its elapsed-time
\* interval is cleared, also when building the final blob throws.
C13_ReleasedAfterStop ==
    \A c \in RecIds :
        recorders[c] = "inactive" => (c \notin liveStreams /\ c \notin intervals)

\* C15: a recording component holds at most one live microphone stream at
\* any time: a start made while a recording is active or while an earlier
\* start awaits the permission acquires no second stream.
C15_OneStream == Cardinality(liveStreams) <= 1

\* C16: after resetRecording or unmount, once the events already under way
\* (a pending permission request, a queued stop event) have been handled, no
\* track of a stream the component acquired is live and no elapsed-time
\* interval is running.
C16_NothingLeftRunning ==
    ((~mounted \/ lastRec.kind = "reset") /\ pendingMedia = {} /\ Finalizing = {})
        => (liveStreams = {} /\ intervals = {})

OpenRecorders == {c \in RecIds : recorders[c] \in {"recording", "stopping"}}

SupportedAt == {i \in 1..Len(mimeTypes) : mimeTypes[i] \in supportedTypes}

\* C20: the negotiated type is the first element of the list, in list
\* order, that the runtime supports, and the fallback ('audio/webm' when
\* the argument is omitted) when none is, the empty list included.
C20_FirstSupportedOrFallback ==
    (negotiated # NULL)
        => IF SupportedAt = {}
           THEN negotiated = (IF fallbackArg = UNDEFINED THEN "audio/webm" ELSE fallbackArg)
           ELSE \E i \in SupportedAt :
                    /\ \A j \in SupportedAt : i <= j
                    /\ negotiated = mimeTypes[i]

C20_Witness ==
    /\ negotiated # NULL
    /\ Len(mimeTypes) = 2
    /\ mimeTypes[1] \notin supportedTypes
    /\ mimeTypes[2] \in supportedTypes
    /\ negotiated = mimeTypes[2]
    /\ fallbackArg = "audio/ogg"

\* the last '.' of a file name and what follows it
Extension(name) ==
    LET dots == {i \in 1..Len(name) : SubSeq(name, i, i) = "."}
    IN  IF dots = {} THEN EMPTY
        ELSE LET d == CHOOSE i \in dots : \A j \in dots : j <= i
             IN  SubSeq(name, d, Len(name))

\* the extension table of the upload contract
TableExtension(type) ==
    CASE Includes(type, "webm") -> ".webm"
      [] Includes(type, "mp4") \/ Includes(type, "m4a") -> ".m4a"
      [] Includes(type, "mpeg") \/ Includes(type, "mp3") -> ".mp3"
      [] Includes(type, "ogg") -> ".ogg"
      [] Includes(type, "flac") -> ".flac"
      [] OTHER -> ".wav"

\* C21: every upload path that is handed a blob without a file name sends
\* a file whose extension is the one the table gives for the blob's MIME
\* type (.wav when no row matches), so all paths agree.
C21_ExtensionFromTable ==
    (upload # NoUpload /\ blobName = UNDEFINED)
        => Extension(upload.name) = TableExtension(blobType)

\* C22: whatever the interleaving of cachePronunciation calls, every
\* object URL that was created and not revoked is the one the cache holds
\* for its key, so no synthesis result is left outside the cache.
C22_NoOrphanUrl ==
    pageLoaded => objectUrls \subseteq CachedUrls

TtsUrlIds == 1..MaxTtsCalls

\* C23: every URL placed in the cache is eventually revoked and no longer
\* in the cache, by its expiry timer or by clearCache.
C23_EveryEntryReleased ==
    \A u \in TtsUrlIds :
        (u \in objectUrls) ~> (u \notin objectUrls /\ u \notin CachedUrls)

SessionOps == {"getOrCreateSessionId", "setSessionId", "clearSessionId", "clearHistory"}

\* C24: after every getOrCreateSessionId, setSessionId and clearSessionId
\* the sessionStorage item equals the in-memory id (both absent or both the
\* same id), and clearHistory leaves an id that is present, stored, and
\* different from the service's and the component's id before the clear.
C24_SessionIdInStep ==
    /\ [](chatLast.kind \in SessionOps => storedSessionId = currentSessionId)
    /\ [][(chatLast'.kind = "clearHistory" /\ chatLast' # chatLast)
            => (/\ currentSessionId' # NoSession
                /\ currentSessionId' # currentSessionId
                /\ currentSessionId' # hookSessionId
                /\ hookSessionId' = currentSessionId'
                /\ storedSessionId' = currentSessionId')]_vars

C24_Witness ==
    /\ chatLast.kind = "clearHistory"
    /\ chatLast.before = 101
    /\ chatLast.hookBefore \notin {NoSession, 101}
    /\ currentSessionId \notin {NoSession, 101, chatLast.hookBefore}
    /\ storedSessionId = currentSessionId

\* the object a saved item parses to, as far as it has keys
SavedKeys(item) == IF item.kind = "object" THEN DOMAIN item.pairs ELSE {}

\* C25: after mounting, each setting is the saved value of its key when
\* the saved item has that key and the default otherwise; a setting given
\* to updateSetting is what a reload then yields for its key; and mounting
\* leaves every saved key of the item with the value it had.
C25_SettingsRoundTrip ==
    /\ [](settingsLast.kind = "mount" =>
            /\ \A k \in SettingKeys :
                  settings[k] = IF k \in SavedKeys(settingsLast.saved)
                                THEN FromJson(k, settingsLast.saved.pairs[k])
                                ELSE DEFAULT_SETTINGS[k]
            /\ settingsLast.key # NoKey => settings[settingsLast.key] = settingsLast.value)
    /\ [][(settingsMounted' /\ ~settingsMounted)
            => (\A k \in SavedKeys(localSettings) :
                    /\ localSettings'.kind = "object"
                    /\ k \in DOMAIN localSettings'.pairs
                    /\ localSettings'.pairs[k] = localSettings.pairs[k])]_vars

C25_Witness ==
    /\ settingsLast.kind = "mount"
    /\ settingsLast.key = "audioVolume"
    /\ settingsLast.value = 3
    /\ settings["audioVolume"] = 3
    /\ settings["language"] = "es"

BlockedMessage ==
    "Audio playback blocked. Please enable audio permissions or interact with the page first."

C27_AnalyzeOnlyWhenReady ==
    /\ [](AnalyzeEnabled =>
            /\ Trim(referenceText) # EMPTY
            /\ appRecordedBlob # NoBlob
            /\ analysisJobs = {}
            /\ ~appIsRecording
            /\ ~appIsProcessing)
    /\ [](nextAnalysis = 1 /\ appRecordedBlob = NoBlob => ~AnalyzeEnabled)
    /\ [][(nextAnalysis' # nextAnalysis)
            => (/\ Trim(referenceText) # EMPTY
                /\ appRecordedBlob # NoBlob
                /\ analysisJobs = {}
                /\ ~appIsRecording
                /\ ~appIsProcessing)]_vars

\* C28: after every applied poll response the exposed status is the status
\* field of that response, and completion is signalled (onAnalysisComplete)
\* only when that field is "completed", never because an analysis payload is
\* present.
C28_StatusVerbatimCompletionByStatus ==
    (paLast.kind = "pollResponse")
        => /\ paStatus = paLast.status
           /\ paLast.signalled => paLast.status = "completed"

\* C29: applying a poll response that omits progress or transcript leaves the
\* stored value of the omitted field unchanged: progress changes only to a
\* value a response carries (never back to 0), and a response without a
\* transcript keeps the transcript.
C29_OmittedFieldsKept ==
    [][(last'.kind = "pollResponse")
        => (/\ progress' # progress => progress' \in ServerProgress \ {NoProgress}
            /\ last'.transcript = UNDEFINED => transcript' = transcript)]_vars

\* C30: the job's result is present only while status is completed: in every
\* state whose status is null, queued, processing or failed the transcript is
\* empty.
C30_ResultOnlyWhenCompleted ==
    (status \in {NULL, "queued", "processing", "failed"}) => (transcript = EMPTY)

\* C31: the job's error message is set only while status is failed: in every
\* state with any other status (null, queued, processing, completed) the
\* error is absent.
C31_ErrorOnlyWhenFailed ==
    (status \in {NULL, "queued", "processing", "completed"}) => ~Truthy(error)

\* the session a blob was built for
SessionOf(b) == CHOOSE sess \in capSessions : sess.id = b.id

\* C32: the finalized blob is the concatenation of the chunks its recorder
\* emitted during that session, in emission order, none duplicated,
\* reordered or carried over from another session.
C32_BlobIsChunksInOrder ==
    \A b \in capBlobs : b.data = Concat(SessionOf(b).emitted)

\* a second session's blob, built from two chunks with data, after an earlier
\* session emitted data as well
C32_Witness ==
    \E b \in capBlobs :
        /\ b.id = 2
        /\ Len(b.data) = 2
        /\ \E sess \in capSessions : sess.id = 1 /\ Len(Concat(sess.emitted)) = 1

\* C33: the MIME type of the finalized blob equals the encoding its recorder
\* was started with, and a session's encoding never changes.
C33_BlobTypeIsEncoding ==
    /\ [](\A b \in capBlobs : b.type = SessionOf(b).encoding)
    /\ [][\A sess \in capSessions :
            \E t \in capSessions' : t.id = sess.id /\ t.encoding = sess.encoding]_vars

C35_ProcessingHasWork ==
    isProcessing => (submits # {} \/ requests # {} \/ timers # {})

\* a job superseded by a later startTranscription: the hook no longer holds
\* its id (the start reset jobId, or a newer job was acknowledged)
Superseded(job) == job # jobId

\* C36: when startTranscription is called again while a status request of
\* the previous job is in flight, the late response of the previous job
\* changes none of status, progress, transcript and error and schedules no
\* further poll.
C36_SupersededResponseIgnored ==
    [][(last'.kind = "pollResponse" /\ ~last'.stale /\ Superseded(last'.job))
        => (UNCHANGED <<status, progress, transcript, error, timers>>)]_vars

\* C37: after the component unmounts no poll timer remains pending and no
\* further status request is issued, even when a status request was in
\* flight at unmount and its response reports queued or processing.
C37_NothingAfterUnmount ==
    /\ [](~mounted => timers = {})
    /\ [][(~mounted) => (requests' \subseteq requests)]_vars

\* C38: for any interleaving of cachePronunciation, the expiry timers and
\* clearCache: the cache never holds (so never returns) a revoked URL, an
\* expiry timer removes only the entry it was created for, and it revokes no
\* URL a second time.
C38_TimersTouchOwnEntry ==
    /\ [](CachedUrls \cap revokedUrls = {})
    /\ [][(lastTts'.kind = "expired")
            => (/\ \A k \in TtsKeys :
                      ttsCache'[k] # ttsCache[k] => ttsCache[k] = lastTts'.url
                /\ ttsCache' # ttsCache => lastTts'.url \notin revokedUrls)]_vars

\* C39: the session_id sent with each query equals the id chatbotService
\* holds when it is sent (in memory and in sessionStorage), whenever it holds
\* one, also after the server returned a different session_id in an earlier
\* response.
C39_SentSessionIsCurrent ==
    [][(currentSessionId' # NoSession)
        => (\A q \in chatQueries' \ chatQueries :
                q.session = currentSessionId' /\ q.session = storedSessionId')]_vars

\* C40: in ChatContainer, after every handleSend the input is eventually
\* enabled again: once ask() has settled, with a new answer, with an answer
\* identical to the previous one or with an error, waiting and loading are
\* false.
C40_InputReenabled == ccWaiting ~> (~ccWaiting /\ ~ccLoading)

====
